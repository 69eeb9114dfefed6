----------------------------- MODULE MediaAssets ----------------------------
(***************************************************************************)
(* Covers and galleries of the catalogue: destinations, accommodations,    *)
(* restaurants, categories and itinerary templates (src/src/modules/admin) *)
(* and the assets at Cloudinary they show.                                 *)
(*                                                                         *)
(* The panel uploads the assets first and then sends their ids.  A handler *)
(* writes the database statement by statement, any of which may fail, and  *)
(* cleans up at Cloudinary: what it was sent if it fails, what it replaced *)
(* if it does not.  One entity of one kind, one request at a time.         *)
(*                                                                         *)
(* Left out: images sent as a bare URL, their order and captions, text,    *)
(* slugs (see Catalogue), the audit log, which never fails a request.      *)
(***************************************************************************)
EXTENDS Naturals, FiniteSets

CONSTANTS
    CoverAssets,    \* assets sent as covers
    GalleryAssets,  \* assets sent as images of a gallery
    Images,         \* ids of gallery rows
    None

VARIABLES
    kind,    \* what the entity is
    row,     \* its row: its cover by URL and by public id
    image,   \* table destination_images, accommodation_images or restaurant_images
    cloud,   \* the assets that exist at Cloudinary
    req,     \* the request in progress
    unread,  \* a row could not be read back after it was written; only properties read it
    dropped  \* gallery assets that nobody deletes any more; only properties read it

vars == <<kind, row, image, cloud, req, unread, dropped>>

Kinds == {"DESTINATION", "ACCOMMODATION", "RESTAURANT", "CATEGORY", "TEMPLATE"}
NoGalleryKinds == {"CATEGORY", "TEMPLATE"}
MediaFiles == CoverAssets \union GalleryAssets

Rows == [url : MediaFiles \union {None}, cover : CoverAssets \union {None}, exists : BOOLEAN]
NoRow == [url |-> None, cover |-> None, exists |-> FALSE]
NoImage == [asset |-> None, primary |-> FALSE]
NoGallery == [i \in Images |-> NoImage]
Galleries == [Images -> [asset : GalleryAssets, primary : BOOLEAN] \union {NoImage}]

\* new: what is deleted if the request fails; old: what is deleted if it does not.
Idle == [pc |-> "idle", row |-> NoRow, image |-> NoGallery, new |-> {}, old |-> {}]

TypeOK ==
    /\ kind \in Kinds
    /\ row \in Rows
    /\ image \in Galleries
    /\ cloud \subseteq MediaFiles
    /\ req \in [pc : {"idle", "write", "refetch", "clearPrimary", "setCover", "writeImage"},
               row : Rows, image : Galleries, new : SUBSET MediaFiles, old : SUBSET MediaFiles]
    /\ unread \in BOOLEAN
    /\ dropped \subseteq GalleryAssets

Init ==
    /\ kind \in Kinds
    /\ row = NoRow
    /\ image = NoGallery
    /\ cloud = {}
    /\ req = Idle
    /\ unread = FALSE
    /\ dropped = {}

-----------------------------------------------------------------------------
Shown(g) == {g[i].asset : i \in Images} \ {None}

primaries(g) == {i \in Images : g[i].primary}

\* Uploaded for this request: nothing refers to it yet.
Fresh(a) == a \notin cloud \union Shown(image) \union {row.cover, row.url}

\* What the panel sends: each asset once, at most one of them primary.
Gallery(g) ==
    /\ \A i, j \in Images : i # j /\ g[i] # NoImage => g[i].asset # g[j].asset
    /\ Cardinality(primaries(g)) <= 1
    /\ kind \in NoGalleryKinds => Shown(g) = {}

\* validateAdminAssetOwnership has accepted the assets that are new.
Begin(pc, newRow, newImage, new, old) ==
    /\ req.pc = "idle"
    /\ req' = [pc |-> pc, row |-> newRow, image |-> newImage, new |-> new, old |-> old]
    /\ cloud' = cloud \union new
    /\ UNCHANGED <<kind, row, image, unread, dropped>>

Create(cover, g) ==
    /\ ~ row.exists
    /\ Gallery(g)
    /\ \A a \in ({cover} \union Shown(g)) \ {None} : Fresh(a)
    /\ Begin("write", [url |-> cover, cover |-> cover, exists |-> TRUE], g,
             ({cover} \union Shown(g)) \ {None}, {})

createDestination(cover, g) == kind = "DESTINATION" /\ Create(cover, g)
createAccommodation(cover, g) == kind = "ACCOMMODATION" /\ cover # None /\ Create(cover, g)
createRestaurant(cover, g) == kind = "RESTAURANT" /\ cover # None /\ Create(cover, g)
createCategory(cover) == kind = "CATEGORY" /\ Create(cover, NoGallery)
createTemplate(cover) == kind = "TEMPLATE" /\ Create(cover, NoGallery)

\* Without a cover, or with the one it has, the cover stays.  An image that is not
\* sent again leaves the gallery; its asset stays at Cloudinary (dropped).
Update(cover, g) ==
    /\ row.exists
    /\ Gallery(g)
    /\ cover \notin {None, row.cover} => Fresh(cover)
    /\ \A a \in Shown(g) \ Shown(image) : Fresh(a)
    /\ LET replaced == cover \notin {None, row.cover}
       IN  Begin("write",
                 IF cover = None THEN row ELSE [url |-> cover, cover |-> cover, exists |-> TRUE],
                 g,
                 (IF replaced THEN {cover} ELSE {}) \union (Shown(g) \ Shown(image)),
                 IF replaced THEN {row.cover} \ {None} ELSE {})

updateDestination(cover, g) == kind = "DESTINATION" /\ Update(cover, g)
updateAccommodation(cover, g) == kind = "ACCOMMODATION" /\ Update(cover, g)
updateRestaurant(cover, g) == kind = "RESTAURANT" /\ Update(cover, g)
updateCategory(cover) == kind = "CATEGORY" /\ Update(cover, image)
updateTemplate(cover) == kind = "TEMPLATE" /\ Update(cover, image)

\* The transaction, which commits or fails.
Write ==
    /\ req.pc = "write"
    /\ \/ /\ row' = req.row /\ image' = req.image
          /\ req' = [req EXCEPT !.pc = "refetch"]
          /\ dropped' = dropped \union (Shown(image) \ Shown(req.image))
          /\ UNCHANGED cloud
       \/ /\ cloud' = cloud \ req.new
          /\ req' = Idle
          /\ UNCHANGED <<row, image, dropped>>
    /\ UNCHANGED <<kind, unread>>

\* The row is read once more for the answer, except after createDestination and for
\* templates, whose transaction reads it.  An
\* accommodation or a restaurant drops its old cover before, the others after.  If that
\* fails the request does, although it is done.
Refetch ==
    /\ req.pc = "refetch"
    /\ \/ cloud' = cloud \ req.old /\ UNCHANGED unread
       \/ /\ kind \in {"ACCOMMODATION", "RESTAURANT"}
          /\ cloud' = cloud \ (req.old \union req.new)
          /\ unread' = TRUE
       \/ /\ kind \in {"DESTINATION", "CATEGORY"}
          /\ cloud' = cloud \ req.new
          /\ unread' = TRUE
    /\ req' = Idle
    /\ UNCHANGED <<kind, row, image, dropped>>

Delete(assets) ==
    /\ req.pc = "idle" /\ row.exists
    /\ row' = NoRow
    /\ image' = NoGallery
    /\ cloud' = cloud \ assets
    /\ dropped' = dropped \union (Shown(image) \ assets)
    /\ UNCHANGED <<kind, req, unread>>

\* Only a destination takes the assets of its gallery along.  An entity that is
\* archived keeps everything.
hardDeleteDestination == kind = "DESTINATION" /\ Delete({row.cover} \union Shown(image))
hardDeleteAccommodation == kind = "ACCOMMODATION" /\ Delete({row.cover})
hardDeleteRestaurant == kind = "RESTAURANT" /\ Delete({row.cover})
hardDeleteCategory == kind = "CATEGORY" /\ Delete({row.cover})

\* A template is only marked, but it can neither be read nor restored.
deleteTemplate == kind = "TEMPLATE" /\ Delete({row.cover})

-----------------------------------------------------------------------------
(* The images of a gallery one by one.                                     *)

BeginImage(i, asset, primary, makesPrimary, new, old) ==
    /\ row.exists /\ kind \notin NoGalleryKinds
    /\ Begin(IF makesPrimary THEN "clearPrimary" ELSE "writeImage",
             [row EXCEPT !.url = asset],
             [image EXCEPT ![i] = [asset |-> asset, primary |-> primary]], new, old)

CreateImage(i, asset, primary) ==
    /\ image[i] = NoImage
    /\ Fresh(asset)
    /\ BeginImage(i, asset, primary, primary, {asset}, {})

createDestinationImage(i, a, p) == kind = "DESTINATION" /\ CreateImage(i, a, p)
createAccommodationImage(i, a, p) == kind = "ACCOMMODATION" /\ CreateImage(i, a, p)
createRestaurantImage(i, a, p) == kind = "RESTAURANT" /\ CreateImage(i, a, p)

\* Another asset, or the same; made primary, or not any more, or as it was.  An image
\* that is primary already does not become the cover again.
UpdateImage(i, asset, primary) ==
    /\ image[i] # NoImage
    /\ asset # image[i].asset => Fresh(asset)
    /\ BeginImage(i, asset, primary, primary /\ ~ image[i].primary,
                  {asset} \ {image[i].asset}, {image[i].asset} \ {asset})

updateDestinationImage(i, a, p) == kind = "DESTINATION" /\ UpdateImage(i, a, p)
updateAccommodationImage(i, a, p) == kind = "ACCOMMODATION" /\ UpdateImage(i, a, p)
updateRestaurantImage(i, a, p) == kind = "RESTAURANT" /\ UpdateImage(i, a, p)

Target == CHOOSE i \in Images : req.image[i] # image[i]

\* The statement fails, and with it the request.
Fail ==
    /\ req.pc \in {"clearPrimary", "setCover", "writeImage"}
    /\ cloud' = cloud \ req.new
    /\ req' = Idle
    /\ UNCHANGED <<kind, row, image, unread, dropped>>

clearPrimaryImages ==
    /\ req.pc = "clearPrimary"
    /\ LET Unset(g) == [j \in Images |-> IF j = Target THEN g[j] ELSE [g[j] EXCEPT !.primary = FALSE]]
       IN  /\ image' = Unset(image)
           /\ req' = [req EXCEPT !.pc = "setCover", !.image = Unset(req.image)]
    /\ UNCHANGED <<kind, row, cloud, unread, dropped>>

\* Only the URL, before the image is written: if that fails, the URL names an asset that
\* is deleted.  So it does when the image is replaced or deleted later on.
setCoverImage ==
    /\ req.pc = "setCover"
    /\ row' = req.row
    /\ req' = [req EXCEPT !.pc = "writeImage"]
    /\ UNCHANGED <<kind, image, cloud, unread, dropped>>

writeImage_deletesFirst ==
    /\ req.pc = "writeImage"
    /\ \/ image' = req.image /\ req' = Idle
       \/ UNCHANGED image /\ req' = Idle
    /\ cloud' = cloud \ req.old
    /\ UNCHANGED <<kind, row, unread, dropped>>

writeImage ==
    /\ req.pc = "writeImage"
    /\ image' = req.image
    /\ cloud' = cloud \ req.old
    /\ req' = Idle
    /\ UNCHANGED <<kind, row, unread, dropped>>

DeleteImage(i) ==
    /\ req.pc = "idle" /\ image[i] # NoImage
    /\ image' = [image EXCEPT ![i] = NoImage]
    /\ cloud' = cloud \ {image[i].asset}
    /\ UNCHANGED <<kind, row, req, unread, dropped>>

deleteDestinationImage(i) == kind = "DESTINATION" /\ DeleteImage(i)
deleteAccommodationImage(i) == kind = "ACCOMMODATION" /\ DeleteImage(i)
deleteRestaurantImage(i) == kind = "RESTAURANT" /\ DeleteImage(i)

Next ==
    \/ \E cover \in CoverAssets \union {None}, g \in Galleries :
          \/ createDestination(cover, g) \/ createAccommodation(cover, g)
          \/ createRestaurant(cover, g)
          \/ updateDestination(cover, g) \/ updateAccommodation(cover, g)
          \/ updateRestaurant(cover, g)
    \/ \E cover \in CoverAssets \union {None} :
          \/ createCategory(cover) \/ updateCategory(cover)
          \/ createTemplate(cover) \/ updateTemplate(cover)
    \/ Write \/ Refetch
    \/ hardDeleteDestination \/ hardDeleteAccommodation
    \/ hardDeleteRestaurant \/ hardDeleteCategory \/ deleteTemplate
    \/ \E i \in Images :
          \/ \E a \in GalleryAssets, p \in BOOLEAN :
                \/ createDestinationImage(i, a, p) \/ createAccommodationImage(i, a, p)
                \/ createRestaurantImage(i, a, p)
                \/ updateDestinationImage(i, a, p) \/ updateAccommodationImage(i, a, p)
                \/ updateRestaurantImage(i, a, p)
          \/ deleteDestinationImage(i) \/ deleteAccommodationImage(i)
          \/ deleteRestaurantImage(i)
    \/ clearPrimaryImages \/ setCoverImage \/ writeImage \/ Fail

Spec == Init /\ [][Next]_vars

-----------------------------------------------------------------------------
(* Properties.                                                             *)

\* Whichever statement fails, a cover and the images of a gallery exist at Cloudinary,
\* unless a row that was written could not be read back.  So does what the URL of the cover
\* names, except an asset that was to be, or was, an image of the gallery and is not in it.
ImagesExist ==
    ~ unread =>
        /\ {row.cover} \union Shown(image) \subseteq cloud \union {None}
        /\ row.url \in cloud \union {None} \union (GalleryAssets \ Shown(image))

\* Also between the statements of a request and after one that fails, a gallery does
\* not have two primary images.
OnePrimary == Cardinality(primaries(image)) <= 1

\* When nothing is in progress all there is at Cloudinary is the cover and the gallery,
\* with the same exception: of what was replaced, refused or deleted nothing is left but
\* the images an edit of the whole row has left out, and the gallery of an accommodation
\* or restaurant that was deleted for good.
NothingStays ==
    req.pc = "idle" /\ ~ unread => cloud \subseteq {row.cover} \union Shown(image) \union dropped

=============================================================================
