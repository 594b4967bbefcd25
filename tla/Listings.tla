------------------------------ MODULE Listings ------------------------------
(***************************************************************************)
(* What the storefront lists: categories, products and their images        *)
(* (app/modules/categories, the listing half of app/modules/products,      *)
(* app/core/storage).                                                      *)
(*                                                                         *)
(* A row lives in the database and its image file in a store that takes no *)
(* part in the transaction.  A request reads its row without a lock, writes *)
(* it later and commits when it ends, so that two administrators on one    *)
(* row, and a failure between the file and the commit, are the hard cases. *)
(* The public product list is shared through the cache.                    *)
(***************************************************************************)
EXTENDS Common, Naturals

CONSTANTS
    Categories, \* row identities
    Products,
    Names,      \* names a row can be given
    Base,       \* Base[n]: what slugify makes of a name
    MaxFiles,   \* bound: files uploaded
    MaxWrites   \* bound: requests that start

\* Paths are numbers, and a row without an image has none of them.
ASSUME NoneAssumption == None \notin Nat

Rows == Categories \cup Products
Paths == 1 .. MaxFiles

VARIABLES
    row,     \* the committed rows; one that is not there is absent
    files,   \* the paths that hold a file
    uploads, \* files uploaded so far (a path is a fresh uuid4)
    request, \* what each request has done
    spoilt,  \* files deleted by a request whose transaction then rolled back
    page,    \* the public product list held by the cache: the statuses of its rows, or None
    shown,   \* the statuses an anonymous reader was last shown
    writes   \* requests started

listingsVars == <<row, files, uploads, request, spoilt, page, shown, writes>>

NoWrite == [op |-> "idle"]

\* A category's or product's row as far as listing it goes.
ListingRow(name, slug, status, category) ==
    [name |-> name, slug |-> slug, status |-> status, category |-> category, image |-> None]

RowExists(r) == row[r].status # "absent"
Table(r) == IF r \in Categories THEN Categories ELSE Products
Named(T, name) == \E r \in T : RowExists(r) /\ row[r].name = name
Slugged(T, slug) == \E r \in T : RowExists(r) /\ row[r].slug = slug

\* slugify: names that differ in case or punctuation have one base; a suffix tells them apart.
Slugify(name) == <<Base[name], 1>>

\* _unique_slug_for: the base, then base-2, base-3, ... the first no committed row has.
UniqueSlugFor(T, name) ==
    LET free == {n \in 1 .. 1 + MaxWrites : ~Slugged(T, <<Slugify(name)[1], n>>)}
    IN  <<Base[name], CHOOSE n \in free : \A m \in free : n <= m>>

ListingsInit ==
    /\ row = [r \in Rows |-> [status |-> "absent"]]
    /\ files = {} /\ uploads = 0 /\ spoilt = {}
    /\ request = [a \in Requests |-> NoWrite]
    /\ page = None /\ shown = {} /\ writes = 0

\* The lock of a row written and not yet committed.
RowUnlocked(r) == \A a \in Requests : request[a].op \in {"saved", "dropped"} => request[a].row # r

Start(a, q) ==
    /\ request[a] = NoWrite /\ writes < MaxWrites
    /\ request' = [request EXCEPT ![a] = q] /\ writes' = writes + 1
    /\ UNCHANGED <<row, files, uploads, spoilt, page, shown>>

\* get_db: the session commits when the request ends, then the cached list is dropped ...
Commit(r, written) ==
    /\ row' = [row EXCEPT ![r] = written]
    /\ page' = None

\* ... or it rolls back.
EndWrite(a) == request' = [request EXCEPT ![a] = NoWrite]

-----------------------------------------------------------------------------
\* create_category: the name and the slug are looked up without a lock ...
CreateCategory(a, name) ==
    /\ ~Named(Categories, name)
    /\ Start(a, [op |-> "create", in |-> Categories,
                 values |-> ListingRow(name, UniqueSlugFor(Categories, name), "active", None)])

\* _validate_category
ValidCategory(c) == RowExists(c) /\ row[c].status = "active"

\* create_product: the category is active, the SKU (named like the product) free.
CreateProduct(a, name, c, status) ==
    /\ ValidCategory(c)
    /\ ~Named(Products, name)
    /\ Start(a, [op |-> "create", in |-> Products,
                 values |-> ListingRow(name, UniqueSlugFor(Products, name), status, c)])

\* The unique indexes of name or SKU, and of slug.
UniqueIndexes(T, values) == ~Named(T, values.name) /\ ~Slugged(T, values.slug)

\* ... and the INSERT is refused when another request took either meanwhile.
Insert(a, r) ==
    LET q == request[a] IN
    /\ q.op = "create" /\ r \in q.in /\ ~RowExists(r)
    /\ IF UniqueIndexes(q.in, q.values) THEN Commit(r, q.values) ELSE UNCHANGED <<row, page>>
    /\ EndWrite(a)
    /\ UNCHANGED <<files, uploads, spoilt, shown, writes>>

\* update_category with a new name: looked up like a creation's, the row's own slug counts as taken.
UpdateCategory(a, c, name) ==
    /\ RowExists(c) /\ row[c].name # name /\ ~Named(Categories, name)
    /\ Start(a, [op |-> "rename", row |-> c, name |-> name, slug |-> UniqueSlugFor(Categories, name)])

Rename(a) ==
    LET q == request[a] IN
    /\ q.op = "rename" /\ RowUnlocked(q.row)
    /\ IF Named(Categories \ {q.row}, q.name) \/ Slugged(Categories \ {q.row}, q.slug)
       THEN UNCHANGED <<row, page>>
       ELSE Commit(q.row, [row[q.row] EXCEPT !.name = q.name, !.slug = q.slug])
    /\ EndWrite(a)
    /\ UNCHANGED <<files, uploads, spoilt, shown, writes>>

SetStatus(r, status) ==
    /\ RowExists(r) /\ RowUnlocked(r) /\ row[r].status # status /\ writes < MaxWrites
    /\ Commit(r, [row[r] EXCEPT !.status = status]) /\ writes' = writes + 1
    /\ UNCHANGED <<files, uploads, request, spoilt, shown>>

\* deactivate_category; update_category with is_active brings it back. Products keep their category.
DeactivateCategory(c) == SetStatus(c, "inactive")
ReactivateCategory(c) == SetStatus(c, "active")

\* archive_product
ArchiveProduct(p) == SetStatus(p, "archived")

-----------------------------------------------------------------------------
\* Mutant: the path to delete is read off the row after it was updated.
OldImageAfterUpdate(q) == q.path

\* The path the request deletes once its row is written: the one it read first.
OldImage(q) == q.old

ReadForUpload(a, r) == Start(a, [op |-> "upload", row |-> r, old |-> row[r].image, path |-> None])

\* upload_category_image, upload_product_image: the row is read, the file judged (size, type, first bytes, extension).
UploadCategoryImage(a, c) == RowExists(c) /\ ReadForUpload(a, c)
UploadProductImage(a, p) == RowExists(p) /\ ReadForUpload(a, p)

\* StorageService.upload: a file at a fresh path.
Upload(a) ==
    LET q == request[a] IN
    /\ q.op = "upload" /\ uploads < MaxFiles
    /\ uploads' = uploads + 1 /\ files' = files \cup {uploads + 1}
    /\ request' = [request EXCEPT ![a] = [q EXCEPT !.op = "stored", !.path = uploads + 1]]
    /\ UNCHANGED <<row, spoilt, page, shown, writes>>

\* The upload fails: nothing was written.
UploadFails(a) ==
    /\ request[a].op = "upload" /\ EndWrite(a)
    /\ UNCHANGED <<row, files, uploads, spoilt, page, shown, writes>>

ReadForDelete(a, r) == Start(a, [op |-> "stored", row |-> r, old |-> row[r].image, path |-> None])

\* delete_category_image, delete_product_image: nothing to do without an image.
DeleteCategoryImage(a, c) == RowExists(c) /\ row[c].image # None /\ ReadForDelete(a, c)
DeleteProductImage(a, p) == RowExists(p) /\ row[p].image # None /\ ReadForDelete(a, p)

\* repository.update: the row names the new file, or none; it is locked until the request ends.
UpdateImage(a) ==
    LET q == request[a] IN
    /\ q.op = "stored" /\ RowUnlocked(q.row)
    /\ request' = [request EXCEPT ![a].op = "saved"]
    /\ UNCHANGED <<row, files, uploads, spoilt, page, shown, writes>>

\* The UPDATE fails: the uploaded file is taken back.
UpdateFails(a) ==
    LET q == request[a] IN
    /\ q.op = "stored"
    /\ files' = files \ {q.path} /\ EndWrite(a)
    /\ UNCHANGED <<row, uploads, spoilt, page, shown, writes>>

\* StorageService.delete of the file the row named before, if any.
DeleteOldFile(a) ==
    LET q == request[a] IN
    /\ q.op = "saved"
    /\ files' = files \ {OldImage(q)}
    /\ request' = [request EXCEPT ![a].op = "dropped"]
    /\ UNCHANGED <<row, uploads, spoilt, page, shown, writes>>

\* The store refuses the deletion and the request fails: rolled back, the new file left behind.
DeleteFails(a) ==
    /\ request[a].op = "saved" /\ request[a].old # None /\ EndWrite(a)
    /\ UNCHANGED <<row, files, uploads, spoilt, page, shown, writes>>

FinishImage(a) ==
    LET q == request[a] IN
    /\ q.op = "dropped"
    /\ Commit(q.row, [row[q.row] EXCEPT !.image = q.path])
    /\ EndWrite(a)
    /\ UNCHANGED <<files, uploads, spoilt, shown, writes>>

\* The commit fails, or the process dies before it: the row names the file just deleted again.
CommitFails(a) ==
    /\ request[a].op = "dropped"
    /\ spoilt' = spoilt \cup {request[a].old} /\ EndWrite(a)
    /\ UNCHANGED <<row, files, uploads, page, shown, writes>>

-----------------------------------------------------------------------------
\* list_paginated: everything for staff who may read the catalogue, active products for everyone else.
ListPaginated(isAdmin) == {row[p].status : p \in {p \in Products : RowExists(p) /\ (isAdmin \/ row[p].status = "active")}}

\* Only the public view is shared.
Cacheable(isAdmin) == ~isAdmin

\* list_products: the cached page, or a load that may be kept.
ListProducts(isAdmin) ==
    LET hit == page # None /\ Cacheable(isAdmin)
        answer == IF hit THEN page ELSE ListPaginated(isAdmin)
    IN  /\ page' = IF Cacheable(isAdmin) THEN answer ELSE page
        /\ shown' = IF isAdmin THEN shown ELSE answer
        /\ UNCHANGED <<row, files, uploads, request, spoilt, writes>>

\* get_product: a product that is not active does not exist for the public; it is never cached.
GetProduct(p) ==
    /\ RowExists(p) /\ row[p].status = "active"
    /\ shown' = {row[p].status}
    /\ UNCHANGED <<row, files, uploads, request, spoilt, page, writes>>

-----------------------------------------------------------------------------
CategoryEndpoints ==
    \E a \in Requests, c \in Categories :
        \/ \E name \in Names : CreateCategory(a, name) \/ UpdateCategory(a, c, name)
        \/ UploadCategoryImage(a, c)
        \/ DeleteCategoryImage(a, c)

ProductEndpoints ==
    \E a \in Requests, p \in Products :
        \/ \E name \in Names, c \in Categories, status \in {"draft", "active"} : CreateProduct(a, name, c, status)
        \/ UploadProductImage(a, p)
        \/ DeleteProductImage(a, p)

ImageStep(a) ==
    \/ Upload(a) \/ UploadFails(a) \/ UpdateImage(a) \/ UpdateFails(a)
    \/ DeleteOldFile(a) \/ DeleteFails(a) \/ FinishImage(a) \/ CommitFails(a)

ListingsNext ==
    \/ CategoryEndpoints
    \/ ProductEndpoints
    \/ \E a \in Requests : ImageStep(a) \/ Rename(a) \/ \E r \in Rows : Insert(a, r)
    \/ \E c \in Categories : DeactivateCategory(c) \/ ReactivateCategory(c)
    \/ \E p \in Products : ArchiveProduct(p) \/ GetProduct(p)
    \/ \E isAdmin \in BOOLEAN : ListProducts(isAdmin)

ListingsSpec == ListingsInit /\ [][ListingsNext]_listingsVars

-----------------------------------------------------------------------------
\* The file of every listed image is there, however uploads, deletions and failures on one row interleave: it can only
\* be missing while the request that replaces it has not committed, or for good after that request was rolled back
\* (upload_product_image: the old file is deleted after the row was written, before the commit).
ShownImageExists ==
    \A r \in {r \in Rows : RowExists(r)} :
        row[r].image # None =>
            \/ row[r].image \in files \cup spoilt
            \/ \E a \in Requests : request[a].op = "dropped" /\ request[a].row = r /\ request[a].old = row[r].image

\* The public never sees a draft or an archived product, not even through the list that staff, who see everything, also
\* ask for (list_products: cached only for the public view).
PublicSeesActive == shown \subseteq {"active"}

\* What the shop shows of a product or category is really there and meant for the public
\* (product_service.py, category_service.py).
ListingIsTrue == ShownImageExists /\ PublicSeesActive
=============================================================================
