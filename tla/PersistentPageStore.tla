------------------------ MODULE PersistentPageStore ------------------------
(***************************************************************************)
(* The persistent page store: src/src/persistent_page_store.cpp.  A put    *)
(* appends one record to path.tmp and renames that file over path; the     *)
(* index maps keys to offsets and is rebuilt when a store is opened.  One  *)
(* store is open at a time.  Offsets are positions in a sequence of        *)
(* records and keys stand for their hashes; get, verify, compact and the   *)
(* counters change nothing that is read again.                             *)
(***************************************************************************)
EXTENDS Integers, Sequences

CONSTANTS
  Keys,      \* page keys
  Pages,     \* encoded pages
  MaxRecords \* bound: records in the temporary file

VARIABLES
  file,    \* records at path, in order
  tmp,     \* records at path.tmp, <<>> when there is no such file
  isOpen,  \* whether a store is open
  reading, \* config.read_enabled of the open store
  index,   \* store->index: position of the record of a key, 0 when not indexed
  kept     \* the page last put with success under each key

vars == <<file, tmp, isOpen, reading, index, kept>>

None == "none"
NoIndex == [k \in Keys |-> 0]

Whole(k, page) == [key |-> k, page |-> page, whole |-> TRUE]
\* A record cut short by a failed write.  The key is what a scan takes from its
\* header, completed by whatever bytes follow: any key, or no record at all.
Torn(k) == [key |-> k, page |-> None, whole |-> FALSE]

Init ==
  /\ file = <<>> /\ tmp = <<>>
  /\ isOpen = FALSE /\ reading = FALSE
  /\ index = NoIndex
  /\ kept = [k \in Keys |-> None]

\* The scan passes whole records; after a torn one it has lost its place.
Scanned == {i \in DOMAIN file : \A j \in 1 .. i - 1 : file[j].whole}
Found(k) == {i \in Scanned : file[i].key = k}

\* cf_persistent_store_open: the last record found of a key is indexed.
Open(read) ==
  /\ ~isOpen
  /\ isOpen' = TRUE /\ reading' = read
  /\ index' = [k \in Keys |->
       IF read /\ Found(k) # {} THEN CHOOSE i \in Found(k) : \A j \in Found(k) : j <= i ELSE 0]
  /\ UNCHANGED <<file, tmp, kept>>

Appends(r) == isOpen /\ Len(tmp) < MaxRecords /\ tmp' = Append(tmp, r)

\* cf_persistent_store_put: path.tmp with the new record takes the place of path.
Put(k, page) ==
  /\ isOpen /\ Len(tmp) < MaxRecords
  /\ file' = Append(tmp, Whole(k, page)) /\ tmp' = <<>>
  /\ index' = [index EXCEPT ![k] = Len(tmp) + 1]
  /\ kept' = [kept EXCEPT ![k] = page]
  /\ UNCHANGED <<isOpen, reading>>

\* A put whose write fails returns -1 and leaves path.tmp behind.
PutFails(k) == Appends(Torn(k)) /\ UNCHANGED <<file, isOpen, reading, index, kept>>

\* The process ends between the write and the rename of a put.
PutCut(k, page) ==
  /\ Appends(Whole(k, page))
  /\ isOpen' = FALSE /\ reading' = FALSE /\ index' = NoIndex
  /\ UNCHANGED <<file, kept>>

\* cf_persistent_store_close, or the process ends at another time.
Close ==
  /\ isOpen
  /\ isOpen' = FALSE /\ reading' = FALSE /\ index' = NoIndex
  /\ UNCHANGED <<file, tmp, kept>>

Next ==
  \/ \E read \in BOOLEAN : Open(read)
  \/ \E k \in Keys, page \in Pages : Put(k, page) \/ PutCut(k, page)
  \/ \E k \in Keys \cup {None} : PutFails(k)
  \/ Close
Spec == Init /\ [][Next]_vars

---------------------------------------------------------------------------
\* What cf_persistent_store_get returns: it reads at the indexed position and
\* never compares the key of the record with the key asked for.
Get(k) ==
  IF index[k] \in DOMAIN file /\ file[index[k]].whole THEN file[index[k]].page ELSE None

\* A page put with success is served to whoever asks for its key, now and after
\* the store has been opened again.  The store keeps the file of the last put
\* only, so a second put replaces the page of the first one's key by its own.
PutPagesServed == isOpen /\ reading => \A k \in Keys : kept[k] # None => Get(k) = kept[k]
=============================================================================
