-------------------------------- MODULE Library --------------------------------
(***************************************************************************)
(* Pictures: files put into storage, the rows that describe them, the      *)
(* library administrators pick from, the collection of a player, and a     *)
(* reader who leafs through one of the two lists page by page while it     *)
(* changes.                                                                *)
(*                                                                         *)
(* Storage is a service and the row a statement of its own: a file may be  *)
(* stored without one.  The file numbered n is the n-th that was stored;   *)
(* images is the table in order of created_at.                             *)
(***************************************************************************)
EXTENDS Integers, Sequences, SequencesExt, FiniteSets

CONSTANTS
    Uploads,       \* requests that bring files
    BatchSizes,    \* how many files a batch may bring
    Limits,        \* what a reader may ask for as limit
    MaxPageLimit,  \* maxPageLimit: 100
    LibraryCap,    \* ListLibraryImages without a limit: 300
    MaxFiles,      \* bound on the files stored
    NoUpload, NoWalk

ASSUME LibraryConstants ==
    /\ BatchSizes \subseteq Nat \ {0} /\ Limits \subseteq Nat
    /\ MaxPageLimit \in Nat \ {0} /\ LibraryCap \in Nat \ {0} /\ MaxFiles \in Nat

VARIABLES
    stored,      \* files in storage
    images,      \* the table: file and is_library
    collection,  \* image ids, in order of added_at
    upload,      \* what each request is in the middle of
    orphaned,    \* history: files that no row was saved for
    walk         \* the reader

libraryVars == <<stored, images, collection, upload, orphaned, walk>>
shelves     == <<stored, images, collection>>

Purposes == {"library", "collection", "game"}
Image    == [file : 1 .. MaxFiles, library : BOOLEAN, matches : BOOLEAN]
Upload   == [purpose : Purposes, left : Nat, step : {"store", "save", "add"},
             item : 0 .. MaxFiles]
Lists    == {"library", "collection"}
Walk     == [list : Lists, limit : Nat, page : Nat, done : BOOLEAN,
             unseen : SUBSET (1 .. MaxFiles), removed : 0 .. MaxFiles]

ASSUME NothingElse == NoUpload \notin Upload /\ NoWalk \notin Walk

-----------------------------------------------------------------------------
(* Lists and pages *)

Ids == DOMAIN images

\* The pictures of a list; of the library, those whose title the reader is
\* searching for.
Listed(list) ==
    IF list = "collection" THEN ToSet(collection)
    ELSE {i \in Ids : images[i].library /\ images[i].matches}

AddedAt(i) == CHOOSE at \in DOMAIN collection : collection[at] = i

\* The row a picture is in, newest first: by added_at, or by created_at.
NotOlder(list, i) ==
    {j \in Listed(list) : IF list = "collection" THEN AddedAt(j) >= AddedAt(i) ELSE j >= i}
Row(list, i) == Cardinality(NotOlder(list, i))

\* A limit is clamped; without one there is no window, but for the library's own.
ParsedLimit(limit) == IF limit > MaxPageLimit THEN MaxPageLimit ELSE limit

RowsPerPage(w) ==
    IF w.limit > 0 THEN w.limit
    ELSE IF w.list = "collection" THEN Len(collection) ELSE LibraryCap

Offset(w) == (w.page - 1) * w.limit

\* LIMIT and OFFSET.
Window(w) == {i \in Listed(w.list) : Row(w.list, i) - Offset(w) \in 1 .. RowsPerPage(w)}

\* count(*) OVER () is a column: without rows it is not there to be read.
Total(w) == IF Window(w) = {} THEN 0 ELSE Cardinality(Listed(w.list))

HasMoreThanOne(w) ==                                             \* a slip
    w.limit > 0 /\ Offset(w) + w.limit + 1 < Total(w)

HasMore(w) == w.limit > 0 /\ Offset(w) + w.limit < Total(w)

\* The reader's account: a picture taken away need not be seen any more, and
\* may cost another one.  No more than are unseen are counted.
TakenFrom(list, i) ==
    walk' = IF walk = NoWalk \/ walk.list # list THEN walk
            ELSE [walk EXCEPT !.unseen = @ \ {i},
                              !.removed = IF @ < Cardinality(walk.unseen) THEN @ + 1 ELSE @]

-----------------------------------------------------------------------------
LibraryInit ==
    /\ stored = 0
    /\ images = <<>>
    /\ collection = <<>>
    /\ upload = [u \in Uploads |-> NoUpload]
    /\ orphaned = 0
    /\ walk = NoWalk

\* The library takes one file or a batch, which goes on with its next file
\* whatever became of this one.
NextFile(u) ==
    LET next == [upload[u] EXCEPT !.left = @ - 1, !.step = "store", !.item = 0]
    IN  upload' = [upload EXCEPT ![u] = IF @.left > 1 THEN next ELSE NoUpload]

StopsAt(u) == upload' = [upload EXCEPT ![u] = NoUpload]

At(u, step) == upload[u] # NoUpload /\ upload[u].step = step

Bring(u, purpose, n) ==
    /\ upload[u] = NoUpload
    /\ purpose # "library" => n = 1
    /\ upload' = [upload EXCEPT ![u] =
                     [purpose |-> purpose, left |-> n, step |-> "store", item |-> 0]]
    /\ UNCHANGED <<shelves, orphaned, walk>>

\* The file is too large, not an image (sniffImageType), or storage answers with
\* an error or nothing: then it may have the file all the same.
FileFails(u) ==
    /\ At(u, "store")
    /\ NextFile(u)
    /\ UNCHANGED <<shelves, orphaned, walk>>

StoredUnknown(u) ==
    /\ At(u, "store") /\ stored < MaxFiles
    /\ stored' = stored + 1
    /\ orphaned' = orphaned + 1
    /\ NextFile(u)
    /\ UNCHANGED <<images, collection, walk>>

StoreFile(u) ==
    /\ At(u, "store") /\ stored < MaxFiles
    /\ stored' = stored + 1
    /\ upload' = [upload EXCEPT ![u].step = "save", ![u].item = stored']
    /\ UNCHANGED <<images, collection, orphaned, walk>>

\* The picture of a game is left to the game's own handler.
CreateImage(u, matches) ==
    /\ At(u, "save")
    /\ matches => upload[u].purpose = "library"
    /\ images' = Append(images, [file    |-> upload[u].item,
                                 library |-> upload[u].purpose = "library",
                                 matches |-> matches])
    /\ IF upload[u].purpose = "collection"
       THEN upload' = [upload EXCEPT ![u].step = "add", ![u].item = Len(images')]
       ELSE NextFile(u)
    /\ UNCHANGED <<stored, collection, orphaned, walk>>

CreateImageFails(u) ==
    /\ At(u, "save")
    /\ orphaned' = orphaned + 1
    /\ NextFile(u)
    /\ UNCHANGED <<shelves, walk>>

\* handleAddToCollection has found the picture it is asked to add.
PickImage(u, i) ==
    /\ upload[u] = NoUpload
    /\ upload' = [upload EXCEPT ![u] =
                     [purpose |-> "collection", left |-> 1, step |-> "add", item |-> i]]
    /\ UNCHANGED <<shelves, orphaned, walk>>

\* ON CONFLICT DO NOTHING: a picture is added once, and stays where it was.
Added(i) == IF i \in ToSet(collection) THEN collection ELSE Append(collection, i)

AddToCollection(u) ==
    /\ At(u, "add")
    /\ collection' = Added(upload[u].item)
    /\ StopsAt(u)
    /\ UNCHANGED <<stored, images, orphaned, walk>>

\* The request ends between two of its steps.
UploadDies(u) ==
    /\ upload[u] # NoUpload
    /\ orphaned' = IF upload[u].step = "save" THEN orphaned + 1 ELSE orphaned
    /\ StopsAt(u)
    /\ UNCHANGED <<shelves, walk>>

RemoveFromCollection(i) ==
    /\ i \in ToSet(collection)
    /\ collection' = RemoveAt(collection, AddedAt(i))
    /\ TakenFrom("collection", i)
    /\ UNCHANGED <<stored, images, upload, orphaned>>

\* handleAdminDeleteLibrary deletes nothing: games keep their picture.
SetImageLibrary(i) ==
    /\ images[i].library
    /\ images' = [images EXCEPT ![i].library = FALSE, ![i].matches = FALSE]
    /\ TakenFrom("library", i)
    /\ UNCHANGED <<stored, collection, upload, orphaned>>

\* A new title brings a picture into a search, or takes it out; titles outside
\* the library are not told apart.
SetImageTitle(i) ==
    /\ images[i].library
    /\ images' = [images EXCEPT ![i].matches = ~@]
    /\ IF images[i].matches THEN TakenFrom("library", i) ELSE UNCHANGED walk
    /\ UNCHANGED <<stored, collection, upload, orphaned>>

\* A reader asks for a first page, then for the next while there is one.
OpenList(list, limit) ==
    /\ walk = NoWalk
    /\ walk' = [list |-> list, limit |-> ParsedLimit(limit), page |-> 1, done |-> FALSE,
                unseen |-> Listed(list), removed |-> 0]
    /\ UNCHANGED <<shelves, upload, orphaned>>

ReadPage ==
    /\ walk # NoWalk /\ ~walk.done
    /\ walk' = [walk EXCEPT !.unseen = @ \ Window(walk),
                            !.page = IF HasMore(walk) THEN @ + 1 ELSE @,
                            !.done = ~HasMore(walk)]
    /\ UNCHANGED <<shelves, upload, orphaned>>

CloseList ==
    /\ walk # NoWalk
    /\ walk' = NoWalk
    /\ UNCHANGED <<shelves, upload, orphaned>>

LibraryNext ==
    \/ \E u \in Uploads :
           \/ \E purpose \in Purposes, n \in BatchSizes : Bring(u, purpose, n)
           \/ FileFails(u) \/ StoredUnknown(u) \/ StoreFile(u) \/ CreateImageFails(u)
           \/ \E matches \in BOOLEAN : CreateImage(u, matches)
           \/ \E i \in Ids : PickImage(u, i)
           \/ AddToCollection(u) \/ UploadDies(u)
    \/ \E i \in Ids : RemoveFromCollection(i) \/ SetImageLibrary(i) \/ SetImageTitle(i)
    \/ \E list \in Lists, limit \in Limits : OpenList(list, limit)
    \/ ReadPage \/ CloseList

LibrarySpec == LibraryInit /\ [][LibraryNext]_libraryVars

-----------------------------------------------------------------------------
(* Properties *)

\* Storage, tables, requests and the reader hold values of their types.
LibraryTypeOK ==
    /\ stored \in 0 .. MaxFiles
    /\ images \in Seq(Image)
    /\ collection \in Seq(1 .. MaxFiles)
    /\ upload \in [Uploads -> Upload \cup {NoUpload}]
    /\ orphaned \in Nat
    /\ walk \in Walk \cup {NoWalk}

FilesWithRow == {images[i].file : i \in Ids}

BeingSaved == {u \in Uploads : At(u, "save")}

\* A picture that is listed can be shown: its row has a file, which no other
\* row has, and a collection has each of its pictures once.  What is stored
\* for nothing is what failures, and requests under way, account for.
PicturesAreThere ==
    /\ FilesWithRow \subseteq 1 .. stored
    /\ Cardinality(FilesWithRow) = Len(images)
    /\ ToSet(collection) \subseteq Ids /\ IsInjective(collection)
    /\ stored = Len(images) + orphaned + Cardinality(BeingSaved)

\* Who has leafed to the end has seen every picture that was there at the
\* start and still is, but for one for each picture taken away meanwhile:
\* what is added on the way shifts the pages and hides nothing.  (Without a
\* limit the library's list ends at its cap.)
WalkMissesNothing ==
    walk # NoWalk /\ walk.done /\ (walk.limit > 0 \/ Cardinality(Listed(walk.list)) <= LibraryCap) =>
        Cardinality(walk.unseen) <= walk.removed

\* Nothing that is listed is missing, and nothing is missing from a list.
NothingIsMissing == PicturesAreThere /\ WalkMissesNothing
=============================================================================
