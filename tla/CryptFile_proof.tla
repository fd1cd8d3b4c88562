--------------------------- MODULE CryptFile_proof ---------------------------
(***************************************************************************)
(* Proofs about CryptFile, for any number of notepads and other processes, *)
(* and about TdiLog, for any size of the ring and any number of threads,   *)
(* processes and entries.                                                  *)
(***************************************************************************)
EXTENDS MCCryptFile, CountingTheorems, TLAPS

-----------------------------------------------------------------------------
(* Type correctness.                                                       *)

LEMMA PagesFinite == Pages = {0, 1}
  BY SMT DEF Pages

LEMMA InitType == Init => TypeOK
  <1> SUFFICES ASSUME Init PROVE TypeOK
    OBVIOUS
  <1>1. disk \in [Pages -> Values]
    BY DEF Init, Values
  <1>2. cache \in [Pages -> Values \cup {"nil"}] /\ seen \in [Procs -> Values]
    BY DEF Init, Purged, Values
  <1>3. pc \in [Procs -> States] /\ kind \in [Procs -> {"none", "new", "listed", "plain", "read"}]
    BY DEF Init, States
  <1> QED
    BY <1>1, <1>2, <1>3 DEF Init, TypeOK

LEMMA XorType == ASSUME NEW v \in Values PROVE Xor(v) \in Values
  BY DEF Xor, Values

LEMMA FlushType == ASSUME TypeOK, Flush PROVE disk' \in [Pages -> Values] /\ dirty' = {}
  <1>1. \A i \in dirty : cache[i] \in Values
    BY DEF TypeOK
  <1>2. 0 \in dirty => Xor(cache[0]) \in Values
    BY <1>1, XorType
  <1>3. Flushed \in [Pages -> Values]
    BY <1>1, <1>2 DEF Flushed, TypeOK
  <1> QED
    BY <1>3 DEF Flush

LEMMA PageInType == ASSUME TypeOK, NEW i \in Pages PROVE PageIn(i) \in Values
  <1>1. Xor(disk[1]) \in Values
    BY PagesFinite, XorType DEF TypeOK
  <1> QED
    BY <1>1 DEF PageIn, TypeOK, Values

\* The data keep their types when the cache is cleared.
LEMMA ClearType ==
  ASSUME TypeOK, cfFileCacheClear
  PROVE  /\ disk' \in [Pages -> Values]
         /\ cache' \in [Pages -> Values \cup {"nil"}]
         /\ dirty' = {}
  BY FlushType DEF cfFileCacheClear, Purged

LEMMA FcbType ==
  ASSUME TypeOK, NEW p \in Procs, FcbAfterClose(p)
  PROVE  /\ disk' \in [Pages -> Values]
         /\ cache' \in [Pages -> Values \cup {"nil"}]
         /\ dirty' \subseteq {i \in Pages : cache'[i] # "nil"}
         /\ listed' \in {"no", "yes", "stale"}
  <1>1. CASE Objects = {p}
    BY <1>1 DEF FcbAfterClose, Purged, TypeOK
  <1>2. CASE Objects # {p}
    BY <1>2 DEF FcbAfterClose, data, TypeOK
  <1> QED
    BY <1>1, <1>2

\* The next place of a process is one.
LEMMA MoveType ==
  ASSUME TypeOK, NEW p \in Procs, NEW s \in States, pc' = [pc EXCEPT ![p] = s]
  PROVE  pc' \in [Procs -> States]
  BY DEF TypeOK

Kinds == {"none", "new", "listed", "plain", "read"}

LEMMA KindType ==
  ASSUME TypeOK, NEW p \in Procs, NEW k \in Kinds, kind' = [kind EXCEPT ![p] = k]
  PROVE  kind' \in [Procs -> Kinds]
  BY DEF TypeOK, Kinds

\* The variables a step of an open or a close does not touch.
LEMMA StepType == TypeOK /\ [Next]_vars => TypeOK'
  <1> SUFFICES ASSUME TypeOK, [Next]_vars PROVE TypeOK'
    OBVIOUS
  <1> DEFINE DataType == /\ disk \in [Pages -> Values]
                         /\ cache \in [Pages -> Values \cup {"nil"}]
                         /\ dirty \subseteq {i \in Pages : cache[i] # "nil"}
             HandleType == /\ pc \in [Procs -> States]
                           /\ kind \in [Procs -> Kinds]
                           /\ seen \in [Procs -> Values]
             ListType == /\ listed \in {"no", "yes", "stale"}
                         /\ lock \in Notepads \cup {Free}
                         /\ raced \in BOOLEAN
  <1> USE DEF data
  <1>0. DataType /\ HandleType /\ ListType
    BY DEF TypeOK, Kinds
  <1>1. ASSUME DataType', HandleType', ListType' PROVE TypeOK'
    BY <1>1 DEF TypeOK, Kinds
  <1>2. CASE LazyWrite
    BY <1>0, <1>1, <1>2, FlushType DEF LazyWrite
  <1>3. ASSUME NEW n \in Notepads, Opening(n) PROVE TypeOK'
    <2> n \in Procs
      BY DEF Procs
    <2>1. CASE PreOpen(n)
      BY <1>0, <1>1, <2>1, MoveType DEF PreOpen, FcbForOpen, Race, States
    <2>2. CASE PreListed(n)
      BY <1>0, <1>1, <2>2, MoveType, KindType DEF PreListed, States, Kinds
    <2>3. CASE PreSize(n)
      <3>1. DataType'
        BY <1>0, <2>3, FlushType DEF PreSize
      <3>2. pc' \in [Procs -> States] /\ kind' \in [Procs -> Kinds]
        BY <1>0, <2>3, MoveType, KindType DEF PreSize, States, Kinds
      <3> QED
        BY <1>0, <1>1, <2>3, <3>1, <3>2 DEF PreSize
    <2>4. CASE PreHeader(n)
      BY <1>0, <1>1, <2>4, MoveType, KindType DEF PreHeader, Race, Purged, States, Kinds, Values
    <2>5. CASE PreClose(n)
      BY <1>0, <1>1, <2>5, MoveType, ClearType, FcbType DEF PreClose, States
    <2>6. CASE Create(n)
      BY <1>0, <1>1, <2>6, MoveType DEF Create, FcbForOpen, Race, States
    <2>7. CASE CreateRefused(n)
      BY <1>0, <1>1, <2>7, MoveType, KindType DEF CreateRefused, States, Kinds
    <2>8. CASE AppendClear(n)
      BY <1>0, <1>1, <2>8, MoveType, ClearType DEF AppendClear, States
    <2>9. CASE AppendLk(n)
      BY <1>0, <1>1, <2>9, MoveType DEF AppendLk, Race, States
    <2> QED
      BY <1>3, <2>1, <2>2, <2>3, <2>4, <2>5, <2>6, <2>7, <2>8, <2>9 DEF Opening
  <1>4. ASSUME NEW o \in Others, OtherCreate(o) \/ OtherPost(o) PROVE TypeOK'
    <2> o \in Procs
      BY DEF Procs
    <2>1. CASE OtherCreate(o)
      BY <1>0, <1>1, <2>1, MoveType DEF OtherCreate, FcbForOpen, Race, States
    <2>2. CASE OtherPost(o)
      BY <1>0, <1>1, <2>2, MoveType DEF OtherPost, States
    <2> QED
      BY <1>4, <2>1, <2>2
  <1>5. ASSUME NEW p \in Procs, Cancel(p) PROVE TypeOK'
    BY <1>0, <1>1, <1>5, MoveType, KindType, FcbType DEF Cancel, States, Kinds
  <1>6. ASSUME NEW p \in Procs, Using(p) PROVE TypeOK'
    <2>1. CASE Read(p)
      <3>1. PICK i \in Pages : /\ cache' = [cache EXCEPT ![i] = IF cache[i] = "nil" THEN PageIn(i) ELSE cache[i]]
                               /\ seen' = [seen EXCEPT ![p] = IF cache[i] = "nil" THEN PageIn(i) ELSE cache[i]]
        BY <2>1, PagesFinite DEF Read
      <3>2. (IF cache[i] = "nil" THEN PageIn(i) ELSE cache[i]) \in Values
        BY <1>0, PageInType
      <3>3. \A v \in Values : v # "nil"
        BY DEF Values
      <3>4. DataType' /\ HandleType'
        BY <1>0, <2>1, <3>1, <3>2, <3>3 DEF Read
      <3> QED
        BY <1>0, <1>1, <2>1, <3>4 DEF Read, Race
    <2>2. CASE Write(p)
      <3>1. PICK v \in Values : v # "nil" /\ cache' = [cache EXCEPT ![0] = v]
        BY <2>2 DEF Write, Values
      <3> QED
        BY <1>0, <1>1, <2>2, <3>1, PagesFinite DEF Write, Race
    <2>3. CASE Cleanup(p)
      BY <1>0, <1>1, <2>3, MoveType, KindType DEF Cleanup, States, Kinds, Values
    <2> QED
      BY <1>6, <2>1, <2>2, <2>3 DEF Using
  <1>7. ASSUME NEW p \in Procs, Closing(p) PROVE TypeOK'
    <2>1. CASE Close(p)
      BY <1>0, <1>1, <2>1, MoveType, FcbType DEF Close, States
    <2>2. CASE CloseClear(p)
      <3>1. DataType'
        BY <1>0, <2>2, ClearType DEF CloseClear
      <3>2. pc' \in [Procs -> States]
        BY <1>0, <2>2, MoveType DEF CloseClear, States
      <3> QED
        BY <1>0, <1>1, <2>2, <3>1, <3>2 DEF CloseClear
    <2>3. CASE CloseRemove(p)
      BY <1>0, <1>1, <2>3, MoveType DEF CloseRemove, States
    <2> QED
      BY <1>7, <2>1, <2>2, <2>3 DEF Closing
  <1>8. CASE UNCHANGED vars
    BY <1>0, <1>1, <1>8 DEF vars
  <1> QED
    BY <1>2, <1>3, <1>4, <1>5, <1>6, <1>7, <1>8 DEF Next

\* Every variable of the file, its list and its handles keeps its type, and
\* no page is dirty that is not in the cache.
THEOREM TypeCorrect == Spec => []TypeOK
  BY InitType, StepType, PTL DEF Spec

-----------------------------------------------------------------------------
(* The list keeps other processes out.                                     *)

LEMMA InitExclusive == Init => Exclusive
  BY DEF Init, Exclusive, cfIsFileCrypting

LEMMA StepExclusive == TypeOK /\ Exclusive /\ [Next]_vars => Exclusive'
  <1> SUFFICES ASSUME TypeOK, Exclusive, [Next]_vars PROVE Exclusive'
    OBVIOUS
  <1> USE DEF Exclusive, cfIsFileCrypting, Procs, Objects, Unclean
  <1>1. \A o \in Others : pc[o] = "use" => o \in Unclean
    OBVIOUS
  \* A node for the FCB appears in two ways: when the file has no object ...
  <1>2. ASSUME FcbForOpen, listed' = "yes", NEW o \in Others PROVE pc[o] # "use"
    BY <1>1, <1>2 DEF FcbForOpen
  <1>3. ASSUME NEW n \in Notepads, Opening(n) PROVE Exclusive'
    <2>1. \A o \in Others : pc'[o] = pc[o]
      BY <1>3, CryptAssumption
         DEF Opening, TypeOK, PreOpen, PreListed, PreSize, PreHeader, PreClose, Create,
             CreateRefused, AppendClear, AppendLk
    <2>2. CASE PreOpen(n) \/ Create(n)
      BY <1>2, <2>1, <2>2 DEF PreOpen, Create
    \* ... and by the insertion, which finds no handle but its own.
    <2>3. CASE AppendLk(n)
      BY <1>1, <2>1, <2>3, CryptAssumption DEF AppendLk
    <2>4. CASE \/ PreListed(n) \/ PreSize(n) \/ PreHeader(n) \/ PreClose(n)
               \/ CreateRefused(n) \/ AppendClear(n)
      <3>1. listed' = "yes" => listed = "yes"
        BY <2>4
           DEF PreListed, PreSize, PreHeader, PreClose, CreateRefused, AppendClear, FcbAfterClose
      <3> QED
        BY <2>1, <3>1
    <2> QED
      BY <1>3, <2>2, <2>3, <2>4 DEF Opening
  \* The create of another process: it is judged after the file system has
  \* counted its handle, so that the insertion has seen it or it the node.
  <1>4. ASSUME NEW o \in Others, OtherCreate(o) PROVE Exclusive'
    <2>1. \A q \in Others : pc'[q] = "use" => pc[q] = "use"
      BY <1>4 DEF OtherCreate, TypeOK
    <2> QED
      BY <1>2, <1>4, <2>1 DEF OtherCreate
  <1>5. ASSUME NEW o \in Others, OtherPost(o) PROVE Exclusive'
    BY <1>5 DEF OtherPost, TypeOK
  <1>6. ASSUME NEW p \in Procs, Cancel(p) \/ Using(p) \/ Closing(p) PROVE Exclusive'
    <2>1. listed' = "yes" => listed = "yes"
      BY <1>6 DEF Cancel, Using, Closing, Read, Write, Cleanup, Close, CloseClear, CloseRemove,
                  FcbAfterClose
    <2>2. \A q \in Others : pc'[q] = "use" => pc[q] = "use"
      BY <1>6 DEF Cancel, Using, Closing, Read, Write, Cleanup, Close, CloseClear, CloseRemove,
                  TypeOK
    <2> QED
      BY <2>1, <2>2
  <1>7. CASE LazyWrite \/ UNCHANGED vars
    BY <1>7 DEF LazyWrite, vars
  <1> QED
    BY <1>3, <1>4, <1>5, <1>6, <1>7 DEF Next

\* No other process has a file open while it is in the list of encrypted
\* files, however its create and the insertion overlap.
THEOREM ListKeepsOthersOut == Spec => []Exclusive
  BY InitType, StepType, InitExclusive, StepExclusive, PTL DEF Spec

-----------------------------------------------------------------------------
(* Notes are in the clear for notepads only.                               *)

\* A handle that is not in use has read nothing.
Unread == \A p \in Procs : pc[p] # "use" => seen[p] = "eof"

\* The pre-open of a notepad has decided how the file is opened.
Decided ==
    /\ \A o \in Others : kind[o] = "none"
    /\ \A n \in Notepads : pc[n] \in {"preclose", "open", "clear", "append", "use"} =>
          kind[n] # "none"

\* What is on the disk, and in the cache of a file that is in the list or not.
Contents ==
    /\ disk[0] \in {"eof", "magic", "text"} /\ disk[1] \in {"eof", "x-note"}
    /\ 1 \notin dirty
    /\ listed = "yes" =>
          /\ disk[0] = "magic"
          /\ cache[0] \in {"nil", "eof", "note"} /\ cache[1] \in {"nil", "eof"}
          /\ 0 \in dirty => cache[0] = "note"
    /\ listed # "yes" =>
          /\ cache[0] \in {"nil", "eof", "magic", "text"} /\ cache[1] \in {"nil", "eof", "x-note"}
          /\ 0 \in dirty => cache[0] = "text"

\* Between the clearing of the cache and the lock nothing comes back into it.
Emptied ==
    \A p \in Procs : pc[p] = "append" \/ (pc[p] = "remove" /\ listed = "yes") => cache = Purged

\* Who puts notes into the file has it in the list,
Inserted ==
    \A n \in Notepads : pc[n] = "use" /\ kind[n] \in {"new", "listed"} => listed = "yes"

\* and who puts other text into it, with no header, has not.
Headless ==
    \A n \in Notepads : kind[n] = "plain" =>
        /\ listed # "yes"
        /\ IF 0 \in dirty THEN cache[0] = "text" ELSE disk[0] = "text"

\* The inductive invariant: it holds in part whatever window was met.
NotesInv ==
    /\ TypeOK /\ Exclusive /\ Unread /\ Decided /\ NoteSecret /\ NotepadReadsNotes
    /\ ~raced => Contents /\ Emptied /\ Inserted /\ Headless

\* What a flush writes, and what stays.
LEMMA FlushKeeps ==
  ASSUME TypeOK, Contents
  PROVE  /\ Flushed[0] = IF listed # "yes" /\ 0 \in dirty THEN "text" ELSE disk[0]
         /\ Flushed[0] \in {"eof", "magic", "text"}
         /\ Flushed[1] \in {"eof", "x-note"}
         /\ Flushed \in [Pages -> Values]
  <1>1. CASE listed = "yes"
    BY <1>1, PagesFinite DEF Flushed, TypeOK, Contents, cfIsFileCrypting, Xor, Values
  <1>2. CASE listed # "yes"
    BY <1>2, PagesFinite DEF Flushed, TypeOK, Contents, cfIsFileCrypting, Values
  <1> QED
    BY <1>1, <1>2

\* ... so that a flush, a purge and a node that turns stale keep Contents.
LEMMA FlushContents ==
  ASSUME TypeOK, Contents, Flush, cache' \in {cache, Purged}, listed' \in {listed, "stale"},
         listed' # listed => listed = "yes" /\ cache' = Purged
  PROVE  Contents'
  <1>1. disk'[0] \in {"eof", "magic", "text"} /\ disk'[1] \in {"eof", "x-note"} /\ dirty' = {}
    BY FlushKeeps DEF Flush
  <1>2. listed = "yes" => disk'[0] = "magic"
    BY FlushKeeps DEF Flush, Contents
  <1>3. cache'[0] \in {cache[0], "nil"} /\ cache'[1] \in {cache[1], "nil"}
    BY PagesFinite DEF Purged
  <1> QED
    BY <1>1, <1>2, <1>3, PagesFinite DEF Contents, Purged

\* The last close leaves nothing in the cache.
LEMMA FcbContents ==
  ASSUME TypeOK, Contents, NEW p \in Procs, FcbAfterClose(p)
  PROVE  /\ Contents'
         /\ listed' # listed => listed = "yes" /\ listed' = "stale" /\ Objects = {p}
         /\ disk' = disk /\ dirty' = dirty /\ cache' \in {cache, Purged}
  BY PagesFinite DEF FcbAfterClose, Contents, TypeOK, Purged, data

\* What a paging read returns for a file in the list, and for another.
LEMMA PageInContents ==
  ASSUME TypeOK, Contents, NEW i \in Pages
  PROVE  /\ listed = "yes" => PageIn(i) \in IF i = 0 THEN {"eof", "note"} ELSE {"eof"}
         /\ listed # "yes" => PageIn(i) = disk[i]
  BY PagesFinite DEF PageIn, TypeOK, Contents, cfIsFileCrypting, Xor

\* Only a read in use fills seen, and a cleanup forgets it.
LEMMA StepUnread ==
  ASSUME TypeOK, Unread, [Next]_vars
  PROVE  Unread'
  <1> USE TypeOK, Unread DEF TypeOK, Unread, Procs, data, Race
  <1>1. CASE LazyWrite
    <2>1. CASE LazyWrite
      BY <2>1 DEF LazyWrite
    <2> QED
      BY <1>1, <2>1
  <1>2. ASSUME NEW n \in Notepads, Opening(n) PROVE Unread'
    <2>1. CASE PreOpen(n)
      BY <2>1 DEF PreOpen
    <2>2. CASE PreListed(n)
      BY <2>2 DEF PreListed
    <2>3. CASE PreSize(n)
      BY <2>3 DEF PreSize
    <2>4. CASE PreHeader(n)
      BY <2>4 DEF PreHeader
    <2>5. CASE PreClose(n)
      BY <2>5 DEF PreClose
    <2>6. CASE Create(n)
      BY <2>6 DEF Create
    <2>7. CASE CreateRefused(n)
      BY <2>7 DEF CreateRefused
    <2>8. CASE AppendClear(n)
      BY <2>8 DEF AppendClear
    <2>9. CASE AppendLk(n)
      BY <2>9 DEF AppendLk
    <2> QED
      BY <1>2, <2>1, <2>2, <2>3, <2>4, <2>5, <2>6, <2>7, <2>8, <2>9 DEF Opening
  <1>3. ASSUME NEW o \in Others, OtherCreate(o) \/ OtherPost(o) PROVE Unread'
    <2>1. CASE OtherCreate(o)
      BY <2>1 DEF OtherCreate
    <2>2. CASE OtherPost(o)
      BY <2>2 DEF OtherPost
    <2> QED
      BY <1>3, <2>1, <2>2
  <1>4. ASSUME NEW p \in Procs, Cancel(p) \/ Using(p) \/ Closing(p) PROVE Unread'
    <2>1. CASE Cancel(p)
      BY <2>1 DEF Cancel
    <2>2. CASE Read(p)
      BY <2>2 DEF Read
    <2>3. CASE Write(p)
      BY <2>3 DEF Write
    <2>4. CASE Cleanup(p)
      BY <2>4 DEF Cleanup
    <2>5. CASE Close(p)
      BY <2>5 DEF Close
    <2>6. CASE CloseClear(p)
      BY <2>6 DEF CloseClear
    <2>7. CASE CloseRemove(p)
      BY <2>7 DEF CloseRemove
    <2> QED
      BY <1>4, <2>1, <2>2, <2>3, <2>4, <2>5, <2>6, <2>7 DEF Using, Closing
  <1>5. CASE UNCHANGED vars
    BY <1>5 DEF vars
  <1> QED
    BY <1>1, <1>2, <1>3, <1>4, <1>5 DEF Next

\* The pre-open decides before it closes its file object.
LEMMA StepDecided ==
  ASSUME TypeOK, Decided, [Next]_vars
  PROVE  Decided'
  <1> USE TypeOK, Decided, CryptAssumption DEF TypeOK, Decided, Procs
  <1>1. CASE LazyWrite
    <2>1. CASE LazyWrite
      BY <2>1 DEF LazyWrite
    <2> QED
      BY <1>1, <2>1
  <1>2. ASSUME NEW n \in Notepads, Opening(n) PROVE Decided'
    <2>1. CASE PreOpen(n)
      BY <2>1 DEF PreOpen
    <2>2. CASE PreListed(n)
      BY <2>2 DEF PreListed
    <2>3. CASE PreSize(n)
      BY <2>3 DEF PreSize
    <2>4. CASE PreHeader(n)
      BY <2>4 DEF PreHeader
    <2>5. CASE PreClose(n)
      BY <2>5 DEF PreClose
    <2>6. CASE Create(n)
      BY <2>6 DEF Create
    <2>7. CASE CreateRefused(n)
      BY <2>7 DEF CreateRefused
    <2>8. CASE AppendClear(n)
      BY <2>8 DEF AppendClear
    <2>9. CASE AppendLk(n)
      BY <2>9 DEF AppendLk
    <2> QED
      BY <1>2, <2>1, <2>2, <2>3, <2>4, <2>5, <2>6, <2>7, <2>8, <2>9 DEF Opening
  <1>3. ASSUME NEW o \in Others, OtherCreate(o) \/ OtherPost(o) PROVE Decided'
    <2>1. CASE OtherCreate(o)
      BY <2>1 DEF OtherCreate
    <2>2. CASE OtherPost(o)
      BY <2>2 DEF OtherPost
    <2> QED
      BY <1>3, <2>1, <2>2
  <1>4. ASSUME NEW p \in Procs, Cancel(p) \/ Using(p) \/ Closing(p) PROVE Decided'
    <2>1. CASE Cancel(p)
      BY <2>1 DEF Cancel
    <2>2. CASE Read(p)
      BY <2>2 DEF Read
    <2>3. CASE Write(p)
      BY <2>3 DEF Write
    <2>4. CASE Cleanup(p)
      BY <2>4 DEF Cleanup
    <2>5. CASE Close(p)
      BY <2>5 DEF Close
    <2>6. CASE CloseClear(p)
      BY <2>6 DEF CloseClear
    <2>7. CASE CloseRemove(p)
      BY <2>7 DEF CloseRemove
    <2> QED
      BY <1>4, <2>1, <2>2, <2>3, <2>4, <2>5, <2>6, <2>7 DEF Using, Closing
  <1>5. CASE UNCHANGED vars
    BY <1>5 DEF vars
  <1> QED
    BY <1>1, <1>2, <1>3, <1>4, <1>5 DEF Next

\* Flushes, page-ins and writes of a listed file, and of one that is not, keep
\* what is on the disk and in the cache apart.
LEMMA StepContents ==
  ASSUME TypeOK, Exclusive, Unread, Decided, Contents, Emptied, Inserted, Headless,
         ~raced, ~raced', [Next]_vars
  PROVE  Contents'
  <1> USE TypeOK, Exclusive, Decided, Contents, Emptied, Inserted, Headless, PagesFinite, ~raced,
          ~raced'
          DEF TypeOK, Exclusive, Decided, Contents, Emptied, Inserted, Headless, Procs, data,
              Race, cfIsFileCrypting, Purged, FcbForOpen, Reused
  <1>1. CASE LazyWrite
    <2>1. CASE LazyWrite
      <3> HIDE DEF TypeOK, Contents
      <3> QED
        BY <2>1, FlushContents DEF LazyWrite
    <2> QED
      BY <1>1, <2>1
  <1>2. ASSUME NEW n \in Notepads, Opening(n) PROVE Contents'
    <2>1. CASE PreOpen(n)
      BY <2>1 DEF PreOpen
    <2>2. CASE PreListed(n)
      BY <2>2 DEF PreListed
    <2>3. CASE PreSize(n)
      <3> HIDE DEF TypeOK, Contents
      <3>1. CASE Flushed[0] = "magic"
        BY <2>3, <3>1, FlushContents DEF PreSize
      <3>2. CASE Flushed[0] # "magic"
        BY <2>3, <3>2 DEF PreSize, TypeOK, Contents
      <3> QED
        BY <3>1, <3>2
    <2>4. CASE PreHeader(n)
      BY <2>4 DEF PreHeader
    <2>5. CASE PreClose(n)
      <3> HIDE DEF TypeOK, Contents
      <3>1. CASE kind[n] = "new"
        BY <2>5, <3>1, FlushContents DEF PreClose, cfFileCacheClear
      <3>2. CASE kind[n] # "new"
        BY <2>5, <3>2, FcbContents DEF PreClose
      <3> QED
        BY <3>1, <3>2
    <2>6. CASE Create(n)
      BY <2>6 DEF Create
    <2>7. CASE CreateRefused(n)
      BY <2>7 DEF CreateRefused
    <2>8. CASE AppendClear(n)
      <3> HIDE DEF TypeOK, Contents
      <3> QED
        BY <2>8, FlushContents DEF AppendClear, cfFileCacheClear
    <2>9. CASE AppendLk(n)
      BY <2>9 DEF AppendLk
    <2> QED
      BY <1>2, <2>1, <2>2, <2>3, <2>4, <2>5, <2>6, <2>7, <2>8, <2>9 DEF Opening
  <1>3. ASSUME NEW o \in Others, OtherCreate(o) \/ OtherPost(o) PROVE Contents'
    <2>1. CASE OtherCreate(o)
      BY <2>1 DEF OtherCreate
    <2>2. CASE OtherPost(o)
      BY <2>2 DEF OtherPost
    <2> QED
      BY <1>3, <2>1, <2>2
  <1>4. ASSUME NEW p \in Procs, Cancel(p) \/ Using(p) \/ Closing(p) PROVE Contents'
    <2>1. CASE Cancel(p)
      <3> HIDE DEF TypeOK, Contents
      <3> QED
        BY <2>1, FcbContents DEF Cancel
    <2>2. CASE Read(p)
      <3> HIDE DEF TypeOK, Contents
      <3>1. PICK i \in Pages :
              cache' = [cache EXCEPT ![i] = IF cache[i] = "nil" THEN PageIn(i) ELSE cache[i]]
        BY <2>2, PagesFinite DEF Read
      <3>2. /\ listed = "yes" => PageIn(i) \in IF i = 0 THEN {"eof", "note"} ELSE {"eof"}
            /\ listed # "yes" => PageIn(i) = disk[i]
        BY PageInContents
      <3>3. UNCHANGED <<listed, disk, dirty>>
        BY <2>2 DEF Read
      <3>4. 0 \in dirty => cache[0] # "nil"
        BY DEF TypeOK
      <3> HIDE DEF Purged
      <3> QED
        BY <3>1, <3>2, <3>3, <3>4 DEF TypeOK, Contents
    <2>3. CASE Write(p)
      <3>1. /\ cache' = [cache EXCEPT ![0] = IF kind[p] \in {"new", "listed"} THEN "note" ELSE "text"]
            /\ dirty' = dirty \cup {0} /\ UNCHANGED <<listed, disk>>
        BY <2>3 DEF Write
      <3>2. kind[p] \in {"new", "listed"} <=> listed = "yes"
        <4>1. CASE p \in Others
          BY <4>1, <2>3, CryptAssumption DEF Write
        <4>2. CASE p \in Notepads
          BY <4>2, <2>3 DEF Write
        <4> QED
          BY <4>1, <4>2
      <3> QED
        BY <3>1, <3>2
    <2>4. CASE Cleanup(p)
      BY <2>4 DEF Cleanup
    <2>5. CASE Close(p)
      <3> HIDE DEF TypeOK, Contents
      <3> QED
        BY <2>5, FcbContents DEF Close
    <2>6. CASE CloseClear(p)
      <3> HIDE DEF TypeOK, Contents
      <3>1. CASE cfFileCacheClear
        BY <2>6, <3>1, FlushContents DEF CloseClear, cfFileCacheClear
      <3>2. CASE UNCHANGED data
        BY <2>6, <3>2 DEF CloseClear, TypeOK, Contents
      <3> QED
        BY <2>6, <3>1, <3>2 DEF CloseClear
    <2>7. CASE CloseRemove(p)
      BY <2>7 DEF CloseRemove
    <2> QED
      BY <1>4, <2>1, <2>2, <2>3, <2>4, <2>5, <2>6, <2>7 DEF Using, Closing
  <1>5. CASE UNCHANGED vars
    BY <1>5 DEF vars
  <1> QED
    BY <1>1, <1>2, <1>3, <1>4, <1>5 DEF Next

\* A read or write that falls into the gap is a window (Race).
LEMMA StepEmptied ==
  ASSUME TypeOK, Exclusive, Unread, Decided, Contents, Emptied, Inserted, Headless,
         ~raced, ~raced', [Next]_vars
  PROVE  Emptied'
  <1> USE TypeOK, Exclusive, Decided, Contents, Emptied, Inserted, Headless, PagesFinite, ~raced,
          ~raced'
          DEF TypeOK, Exclusive, Decided, Contents, Emptied, Inserted, Headless, Procs, data,
              Race, cfIsFileCrypting, Purged, FcbForOpen, Reused
  <1>1. CASE LazyWrite
    <2>1. CASE LazyWrite
      BY <2>1 DEF LazyWrite
    <2> QED
      BY <1>1, <2>1
  <1>2. ASSUME NEW n \in Notepads, Opening(n) PROVE Emptied'
    <2>1. CASE PreOpen(n)
      BY <2>1 DEF PreOpen
    <2>2. CASE PreListed(n)
      BY <2>2 DEF PreListed
    <2>3. CASE PreSize(n)
      BY <2>3 DEF PreSize
    <2>4. CASE PreHeader(n)
      BY <2>4 DEF PreHeader
    <2>5. CASE PreClose(n)
      <3>1. CASE kind[n] = "new"
        BY <2>5, <3>1 DEF PreClose, cfFileCacheClear
      <3>2. CASE kind[n] # "new"
        <4>1. /\ listed' # listed => listed = "yes" /\ listed' = "stale" /\ Objects = {n}
              /\ disk' = disk /\ dirty' = dirty /\ cache' \in {cache, Purged}
          BY <2>5, <3>2 DEF FcbAfterClose, PreClose
        <4> QED
          BY <2>5, <3>2, <4>1 DEF PreClose
      <3> QED
        BY <3>1, <3>2
    <2>6. CASE Create(n)
      BY <2>6 DEF Create
    <2>7. CASE CreateRefused(n)
      BY <2>7 DEF CreateRefused
    <2>8. CASE AppendClear(n)
      BY <2>8 DEF AppendClear, cfFileCacheClear
    <2>9. CASE AppendLk(n)
      BY <2>9 DEF AppendLk
    <2> QED
      BY <1>2, <2>1, <2>2, <2>3, <2>4, <2>5, <2>6, <2>7, <2>8, <2>9 DEF Opening
  <1>3. ASSUME NEW o \in Others, OtherCreate(o) \/ OtherPost(o) PROVE Emptied'
    <2>1. CASE OtherCreate(o)
      BY <2>1 DEF OtherCreate
    <2>2. CASE OtherPost(o)
      BY <2>2 DEF OtherPost
    <2> QED
      BY <1>3, <2>1, <2>2
  <1>4. ASSUME NEW p \in Procs, Cancel(p) \/ Using(p) \/ Closing(p) PROVE Emptied'
    <2>1. CASE Cancel(p)
      <3>1. /\ listed' # listed => listed = "yes" /\ listed' = "stale" /\ Objects = {p}
            /\ disk' = disk /\ dirty' = dirty /\ cache' \in {cache, Purged}
        BY <2>1, PagesFinite DEF FcbAfterClose, Cancel
      <3> QED
        BY <2>1, <3>1 DEF Cancel
    <2>2. CASE Read(p)
      BY <2>2 DEF Read, Cleared
    <2>3. CASE Write(p)
      BY <2>3 DEF Write, Cleared
    <2>4. CASE Cleanup(p)
      BY <2>4 DEF Cleanup
    <2>5. CASE Close(p)
      <3>1. /\ listed' # listed => listed = "yes" /\ listed' = "stale" /\ Objects = {p}
            /\ disk' = disk /\ dirty' = dirty /\ cache' \in {cache, Purged}
        BY <2>5, PagesFinite DEF FcbAfterClose, Close
      <3> QED
        BY <2>5, <3>1 DEF Close
    <2>6. CASE CloseClear(p)
      <3>1. CASE cfFileCacheClear
        BY <2>6, <3>1 DEF CloseClear, cfFileCacheClear
      <3>2. CASE UNCHANGED data
        BY <2>6, <3>2 DEF CloseClear, cfFileCacheClear
      <3> QED
        BY <2>6, <3>1, <3>2 DEF CloseClear
    <2>7. CASE CloseRemove(p)
      BY <2>7 DEF CloseRemove
    <2> QED
      BY <1>4, <2>1, <2>2, <2>3, <2>4, <2>5, <2>6, <2>7 DEF Using, Closing
  <1>5. CASE UNCHANGED vars
    BY <1>5 DEF vars
  <1> QED
    BY <1>1, <1>2, <1>3, <1>4, <1>5 DEF Next

\* The file leaves the list when nobody has it in use any more.
LEMMA StepInserted ==
  ASSUME TypeOK, Exclusive, Unread, Decided, Contents, Emptied, Inserted, Headless,
         ~raced, ~raced', [Next]_vars
  PROVE  Inserted'
  <1> USE TypeOK, Exclusive, Decided, Contents, Emptied, Inserted, Headless, PagesFinite, ~raced,
          ~raced'
          DEF TypeOK, Exclusive, Decided, Contents, Emptied, Inserted, Headless, Procs, data,
              Race, cfIsFileCrypting, Purged, FcbForOpen, Reused
  <1>1. CASE LazyWrite
    <2>1. CASE LazyWrite
      BY <2>1 DEF LazyWrite
    <2> QED
      BY <1>1, <2>1
  <1>2. ASSUME NEW n \in Notepads, Opening(n) PROVE Inserted'
    <2>1. CASE PreOpen(n)
      BY <2>1 DEF PreOpen
    <2>2. CASE PreListed(n)
      BY <2>2 DEF PreListed
    <2>3. CASE PreSize(n)
      BY <2>3 DEF PreSize
    <2>4. CASE PreHeader(n)
      BY <2>4 DEF PreHeader
    <2>5. CASE PreClose(n)
      BY <2>5 DEF PreClose, FcbAfterClose, Objects
    <2>6. CASE Create(n)
      BY <2>6 DEF Create
    <2>7. CASE CreateRefused(n)
      BY <2>7 DEF CreateRefused
    <2>8. CASE AppendClear(n)
      BY <2>8 DEF AppendClear
    <2>9. CASE AppendLk(n)
      BY <2>9 DEF AppendLk
    <2> QED
      BY <1>2, <2>1, <2>2, <2>3, <2>4, <2>5, <2>6, <2>7, <2>8, <2>9 DEF Opening
  <1>3. ASSUME NEW o \in Others, OtherCreate(o) \/ OtherPost(o) PROVE Inserted'
    <2>1. CASE OtherCreate(o)
      BY <2>1 DEF OtherCreate
    <2>2. CASE OtherPost(o)
      BY <2>2, CryptAssumption DEF OtherPost
    <2> QED
      BY <1>3, <2>1, <2>2
  <1>4. ASSUME NEW p \in Procs, Cancel(p) \/ Using(p) \/ Closing(p) PROVE Inserted'
    <2>1. CASE Cancel(p)
      BY <2>1, CryptAssumption DEF Cancel, FcbAfterClose, Objects
    <2>2. CASE Read(p)
      BY <2>2 DEF Read
    <2>3. CASE Write(p)
      BY <2>3 DEF Write
    <2>4. CASE Cleanup(p)
      BY <2>4 DEF Cleanup
    <2>5. CASE Close(p)
      BY <2>5 DEF Close, FcbAfterClose, Objects
    <2>6. CASE CloseClear(p)
      BY <2>6 DEF CloseClear
    <2>7. CASE CloseRemove(p)
      BY <2>7 DEF CloseRemove, Unclean, Objects
    <2> QED
      BY <1>4, <2>1, <2>2, <2>3, <2>4, <2>5, <2>6, <2>7 DEF Using, Closing
  <1>5. CASE UNCHANGED vars
    BY <1>5 DEF vars
  <1> QED
    BY <1>1, <1>2, <1>3, <1>4, <1>5 DEF Next

\* A file without a header is not inserted: the insertion that finds none races.
LEMMA StepHeadless ==
  ASSUME TypeOK, Exclusive, Unread, Decided, Contents, Emptied, Inserted, Headless,
         ~raced, ~raced', [Next]_vars
  PROVE  Headless'
  <1> USE TypeOK, Exclusive, Decided, Contents, Emptied, Inserted, Headless, PagesFinite, ~raced,
          ~raced'
          DEF TypeOK, Exclusive, Decided, Contents, Emptied, Inserted, Headless, Procs, data,
              Race, cfIsFileCrypting, Purged, FcbForOpen, Reused
  <1>1. CASE LazyWrite
    <2>1. CASE LazyWrite
      BY <2>1, FlushKeeps DEF Flush, cfFileCacheClear, LazyWrite
    <2> QED
      BY <1>1, <2>1
  <1>2. ASSUME NEW n \in Notepads, Opening(n) PROVE Headless'
    <2>1. CASE PreOpen(n)
      BY <2>1 DEF PreOpen
    <2>2. CASE PreListed(n)
      BY <2>2 DEF PreListed
    <2>3. CASE PreSize(n)
      BY <2>3, FlushKeeps DEF Flush, cfFileCacheClear, PreSize
    <2>4. CASE PreHeader(n)
      BY <2>4, FlushKeeps DEF Flush, cfFileCacheClear, PreHeader
    <2>5. CASE PreClose(n)
      <3>1. CASE kind[n] = "new"
        BY <2>5, <3>1, FlushKeeps DEF Flush, PreClose, cfFileCacheClear
      <3>2. CASE kind[n] # "new"
        <4>1. /\ listed' # listed => listed = "yes" /\ listed' = "stale" /\ Objects = {n}
              /\ disk' = disk /\ dirty' = dirty /\ cache' \in {cache, Purged}
              /\ cache' = cache \/ dirty = {}
          BY <2>5, <3>2 DEF FcbAfterClose, PreClose
        <4> QED
          BY <2>5, <3>2, <4>1 DEF PreClose
      <3> QED
        BY <3>1, <3>2
    <2>6. CASE Create(n)
      BY <2>6 DEF Create
    <2>7. CASE CreateRefused(n)
      BY <2>7 DEF CreateRefused
    <2>8. CASE AppendClear(n)
      BY <2>8, FlushKeeps DEF Flush, cfFileCacheClear, AppendClear
    <2>9. CASE AppendLk(n)
      BY <2>9 DEF AppendLk
    <2> QED
      BY <1>2, <2>1, <2>2, <2>3, <2>4, <2>5, <2>6, <2>7, <2>8, <2>9 DEF Opening
  <1>3. ASSUME NEW o \in Others, OtherCreate(o) \/ OtherPost(o) PROVE Headless'
    <2>1. CASE OtherCreate(o)
      BY <2>1 DEF OtherCreate
    <2>2. CASE OtherPost(o)
      BY <2>2 DEF OtherPost
    <2> QED
      BY <1>3, <2>1, <2>2
  <1>4. ASSUME NEW p \in Procs, Cancel(p) \/ Using(p) \/ Closing(p) PROVE Headless'
    <2>1. CASE Cancel(p)
      <3>1. /\ listed' # listed => listed = "yes" /\ listed' = "stale" /\ Objects = {p}
            /\ disk' = disk /\ dirty' = dirty /\ cache' \in {cache, Purged}
            /\ cache' = cache \/ dirty = {}
        BY <2>1, PagesFinite DEF FcbAfterClose, Cancel
      <3> QED
        BY <2>1, <3>1 DEF Cancel
    <2>2. CASE Read(p)
      BY <2>2 DEF Read
    <2>3. CASE Write(p)
      BY <2>3 DEF Write
    <2>4. CASE Cleanup(p)
      BY <2>4 DEF Cleanup
    <2>5. CASE Close(p)
      <3>1. /\ listed' # listed => listed = "yes" /\ listed' = "stale" /\ Objects = {p}
            /\ disk' = disk /\ dirty' = dirty /\ cache' \in {cache, Purged}
            /\ cache' = cache \/ dirty = {}
        BY <2>5, PagesFinite DEF FcbAfterClose, Close
      <3> QED
        BY <2>5, <3>1 DEF Close
    <2>6. CASE CloseClear(p)
      BY <2>6, FlushKeeps DEF Flush, cfFileCacheClear, CloseClear
    <2>7. CASE CloseRemove(p)
      BY <2>7 DEF CloseRemove
    <2> QED
      BY <1>4, <2>1, <2>2, <2>3, <2>4, <2>5, <2>6, <2>7 DEF Using, Closing
  <1>5. CASE UNCHANGED vars
    BY <1>5 DEF vars
  <1> QED
    BY <1>1, <1>2, <1>3, <1>4, <1>5 DEF Next

\* What another process reads is not a note: its file is not in the list.
LEMMA StepNoteSecret ==
  ASSUME TypeOK, Exclusive, Unread, Decided, Contents, Emptied, Inserted, Headless,
         NoteSecret, NotepadReadsNotes, ~raced, ~raced', [Next]_vars
  PROVE  NoteSecret'
  <1> USE TypeOK, Exclusive, Decided, Contents, Emptied, Inserted, Headless, Unread, NoteSecret,
          NotepadReadsNotes, PagesFinite, ~raced, ~raced'
          DEF TypeOK, Exclusive, Decided, Contents, Emptied, Inserted, Headless, Unread,
              NoteSecret, NotepadReadsNotes, Procs, data, Race, cfIsFileCrypting, Purged,
              FcbForOpen, Reused
  <1>1. CASE LazyWrite
    <2>1. CASE LazyWrite
      BY <2>1 DEF LazyWrite
    <2> QED
      BY <1>1, <2>1
  <1>2. ASSUME NEW n \in Notepads, Opening(n) PROVE NoteSecret'
    <2>1. CASE PreOpen(n)
      BY <2>1 DEF PreOpen
    <2>2. CASE PreListed(n)
      BY <2>2 DEF PreListed
    <2>3. CASE PreSize(n)
      BY <2>3 DEF PreSize
    <2>4. CASE PreHeader(n)
      BY <2>4 DEF PreHeader
    <2>5. CASE PreClose(n)
      BY <2>5 DEF PreClose
    <2>6. CASE Create(n)
      BY <2>6 DEF Create
    <2>7. CASE CreateRefused(n)
      BY <2>7 DEF CreateRefused
    <2>8. CASE AppendClear(n)
      BY <2>8 DEF AppendClear
    <2>9. CASE AppendLk(n)
      BY <2>9 DEF AppendLk
    <2> QED
      BY <1>2, <2>1, <2>2, <2>3, <2>4, <2>5, <2>6, <2>7, <2>8, <2>9 DEF Opening
  <1>3. ASSUME NEW o \in Others, OtherCreate(o) \/ OtherPost(o) PROVE NoteSecret'
    <2>1. CASE OtherCreate(o)
      BY <2>1 DEF OtherCreate
    <2>2. CASE OtherPost(o)
      BY <2>2 DEF OtherPost
    <2> QED
      BY <1>3, <2>1, <2>2
  <1>4. ASSUME NEW p \in Procs, Cancel(p) \/ Using(p) \/ Closing(p) PROVE NoteSecret'
    <2>1. CASE Cancel(p)
      BY <2>1 DEF Cancel
    <2>2. CASE Read(p)
      <3> HIDE DEF TypeOK, Contents
      <3>1. PICK i \in IF p \in Notepads THEN {0} ELSE Pages :
              seen' = [seen EXCEPT ![p] = IF cache[i] = "nil" THEN PageIn(i) ELSE cache[i]]
        BY <2>2 DEF Read
      <3>2. i \in Pages
        BY <3>1, PagesFinite
      <3>3. /\ listed = "yes" => PageIn(i) \in IF i = 0 THEN {"eof", "note"} ELSE {"eof"}
            /\ listed # "yes" => PageIn(i) = disk[i]
        BY <3>2, PageInContents
      <3>4. UNCHANGED <<pc, kind>> /\ pc[p] = "use"
        BY <2>2 DEF Read
      <3> QED
        BY <3>1, <3>2, <3>3, <3>4, CryptAssumption DEF TypeOK, Contents
    <2>3. CASE Write(p)
      BY <2>3 DEF Write
    <2>4. CASE Cleanup(p)
      BY <2>4 DEF Cleanup
    <2>5. CASE Close(p)
      BY <2>5 DEF Close
    <2>6. CASE CloseClear(p)
      BY <2>6 DEF CloseClear
    <2>7. CASE CloseRemove(p)
      BY <2>7 DEF CloseRemove
    <2> QED
      BY <1>4, <2>1, <2>2, <2>3, <2>4, <2>5, <2>6, <2>7 DEF Using, Closing
  <1>5. CASE UNCHANGED vars
    BY <1>5 DEF vars
  <1> QED
    BY <1>1, <1>2, <1>3, <1>4, <1>5 DEF Next

\* What a notepad reads that has the file encrypted is a note, or nothing.
LEMMA StepNotepadReadsNotes ==
  ASSUME TypeOK, Exclusive, Unread, Decided, Contents, Emptied, Inserted, Headless,
         NoteSecret, NotepadReadsNotes, ~raced, ~raced', [Next]_vars
  PROVE  NotepadReadsNotes'
  <1> USE TypeOK, Exclusive, Decided, Contents, Emptied, Inserted, Headless, Unread, NoteSecret,
          NotepadReadsNotes, PagesFinite, ~raced, ~raced'
          DEF TypeOK, Exclusive, Decided, Contents, Emptied, Inserted, Headless, Unread,
              NoteSecret, NotepadReadsNotes, Procs, data, Race, cfIsFileCrypting, Purged,
              FcbForOpen, Reused
  <1>1. CASE LazyWrite
    <2>1. CASE LazyWrite
      BY <2>1 DEF LazyWrite
    <2> QED
      BY <1>1, <2>1
  <1>2. ASSUME NEW n \in Notepads, Opening(n) PROVE NotepadReadsNotes'
    <2>1. CASE PreOpen(n)
      BY <2>1 DEF PreOpen
    <2>2. CASE PreListed(n)
      BY <2>2 DEF PreListed
    <2>3. CASE PreSize(n)
      BY <2>3 DEF PreSize
    <2>4. CASE PreHeader(n)
      BY <2>4 DEF PreHeader
    <2>5. CASE PreClose(n)
      BY <2>5 DEF PreClose
    <2>6. CASE Create(n)
      BY <2>6 DEF Create
    <2>7. CASE CreateRefused(n)
      BY <2>7 DEF CreateRefused
    <2>8. CASE AppendClear(n)
      BY <2>8 DEF AppendClear
    <2>9. CASE AppendLk(n)
      BY <2>9 DEF AppendLk
    <2> QED
      BY <1>2, <2>1, <2>2, <2>3, <2>4, <2>5, <2>6, <2>7, <2>8, <2>9 DEF Opening
  <1>3. ASSUME NEW o \in Others, OtherCreate(o) \/ OtherPost(o) PROVE NotepadReadsNotes'
    <2>1. CASE OtherCreate(o)
      BY <2>1 DEF OtherCreate
    <2>2. CASE OtherPost(o)
      BY <2>2 DEF OtherPost
    <2> QED
      BY <1>3, <2>1, <2>2
  <1>4. ASSUME NEW p \in Procs, Cancel(p) \/ Using(p) \/ Closing(p) PROVE NotepadReadsNotes'
    <2>1. CASE Cancel(p)
      BY <2>1 DEF Cancel
    <2>2. CASE Read(p)
      <3> HIDE DEF TypeOK, Contents
      <3>1. PICK i \in IF p \in Notepads THEN {0} ELSE Pages :
              seen' = [seen EXCEPT ![p] = IF cache[i] = "nil" THEN PageIn(i) ELSE cache[i]]
        BY <2>2 DEF Read
      <3>2. i \in Pages
        BY <3>1, PagesFinite
      <3>3. /\ listed = "yes" => PageIn(i) \in IF i = 0 THEN {"eof", "note"} ELSE {"eof"}
            /\ listed # "yes" => PageIn(i) = disk[i]
        BY <3>2, PageInContents
      <3>4. UNCHANGED <<pc, kind>> /\ pc[p] = "use"
        BY <2>2 DEF Read
      <3> QED
        BY <3>1, <3>2, <3>3, <3>4, CryptAssumption DEF TypeOK, Contents
    <2>3. CASE Write(p)
      BY <2>3 DEF Write
    <2>4. CASE Cleanup(p)
      BY <2>4 DEF Cleanup
    <2>5. CASE Close(p)
      BY <2>5 DEF Close
    <2>6. CASE CloseClear(p)
      BY <2>6 DEF CloseClear
    <2>7. CASE CloseRemove(p)
      BY <2>7 DEF CloseRemove
    <2> QED
      BY <1>4, <2>1, <2>2, <2>3, <2>4, <2>5, <2>6, <2>7 DEF Using, Closing
  <1>5. CASE UNCHANGED vars
    BY <1>5 DEF vars
  <1> QED
    BY <1>1, <1>2, <1>3, <1>4, <1>5 DEF Next

\* The first states are of a file that nobody has open.
LEMMA InitNotes == Init => NotesInv
  <1> SUFFICES ASSUME Init PROVE NotesInv
    OBVIOUS
  <1>1. TypeOK /\ Exclusive
    BY InitType, InitExclusive
  <1>2. Contents
    BY PagesFinite DEF Init, Contents, Purged
  <1>3. Unread /\ Decided /\ Emptied /\ Inserted /\ Headless
    BY CryptAssumption DEF Init, Unread, Decided, Emptied, Inserted, Headless, Procs
  <1> QED
    BY <1>1, <1>2, <1>3 DEF Init, NotesInv, NoteSecret, NotepadReadsNotes, Procs

\* A window that was met is remembered.
LEMMA RacedStays == ASSUME [Next]_vars, raced PROVE raced'
  BY DEF Next, vars, LazyWrite, Opening, PreOpen, PreListed, PreSize, PreHeader, PreClose, Create,
         CreateRefused, AppendClear, AppendLk, OtherCreate, OtherPost, Cancel, Using, Read, Write,
         Cleanup, Closing, Close, CloseClear, CloseRemove, Race

\* The parts together.
LEMMA StepNotes == NotesInv /\ [Next]_vars => NotesInv'
  <1> SUFFICES ASSUME NotesInv, [Next]_vars PROVE NotesInv'
    OBVIOUS
  <1>1. TypeOK' /\ Exclusive' /\ Unread' /\ Decided'
    BY StepType, StepExclusive, StepUnread, StepDecided DEF NotesInv
  <1>2. ASSUME ~raced'
        PROVE  /\ Contents' /\ Emptied' /\ Inserted' /\ Headless'
               /\ NoteSecret' /\ NotepadReadsNotes'
    <2>1. ~raced
      BY <1>2, RacedStays
    <2> QED
      BY <1>2, <2>1, StepContents, StepEmptied, StepInserted, StepHeadless, StepNoteSecret,
         StepNotepadReadsNotes DEF NotesInv
  <1> QED
    BY <1>1, <1>2 DEF NotesInv, NoteSecret, NotepadReadsNotes

\* In every state: what the disk and the cache hold of a listed and an unlisted
\* file, who may put what into it, and what has been read.
THEOREM NotesInvariant == Spec => []NotesInv
  BY InitNotes, StepNotes, PTL DEF Spec

\* cfIrpCreatePre, cfFileCryptAppendLk, cfIrpReadPre, cfIrpWritePre, cfIrpClosePost:
\* unless a window was met, notes are never on the disk in the clear, no other
\* process reads them and every notepad that has the file encrypted does.
THEOREM NotesAlwaysProtected == Spec => []NotesProtected
  <1>1. NotesInv => NotesProtected
    BY PagesFinite DEF NotesInv, Contents, NotesProtected, NoteEncrypted, NoteSecret,
                       NotepadReadsNotes, cfIsFileCrypting
  <1> QED
    BY <1>1, NotesInvariant, PTL


-----------------------------------------------------------------------------
(* The log queue: the ring.                                                *)

\* n slots, from slot t on.
Stretch(t, n) == {Queue!After(t, i) : i \in 0 .. (n - 1)}

LEMMA SizeIs == REQUEST_QUEUE_SIZE \in Nat /\ REQUEST_QUEUE_SIZE > 1
  BY PartsAssumption DEF Queue!TdiLogAssumption

LEMMA Around ==
  ASSUME NEW i \in Queue!Slots, NEW n \in 0 .. REQUEST_QUEUE_SIZE
  PROVE  /\ Queue!After(i, n) = IF i + n < REQUEST_QUEUE_SIZE
                                THEN i + n ELSE i + n - REQUEST_QUEUE_SIZE
         /\ Queue!After(i, n) \in Queue!Slots
  <1>1. i \in Nat /\ n \in Nat /\ i < REQUEST_QUEUE_SIZE /\ n <= REQUEST_QUEUE_SIZE
    BY SizeIs DEF Queue!Slots
  <1>2. i + n < REQUEST_QUEUE_SIZE => (i + n) % REQUEST_QUEUE_SIZE = i + n
    BY <1>1, SizeIs
  <1>3. i + n >= REQUEST_QUEUE_SIZE =>
          (i + n) % REQUEST_QUEUE_SIZE = i + n - REQUEST_QUEUE_SIZE
    BY <1>1, SizeIs
  <1> QED
    BY <1>1, <1>2, <1>3, SizeIs DEF Queue!After, Queue!Slots

LEMMA StretchIs ==
  ASSUME NEW t \in Queue!Slots, NEW n \in 0 .. (REQUEST_QUEUE_SIZE - 1)
  PROVE  Stretch(t, n) =
           {i \in Queue!Slots : IF t + n <= REQUEST_QUEUE_SIZE THEN t <= i /\ i < t + n
                                ELSE t <= i \/ i < t + n - REQUEST_QUEUE_SIZE}
  <1> DEFINE Held(i) == IF t + n <= REQUEST_QUEUE_SIZE THEN t <= i /\ i < t + n
                        ELSE t <= i \/ i < t + n - REQUEST_QUEUE_SIZE
  <1>1. ASSUME NEW k \in 0 .. (n - 1)
        PROVE  Queue!After(t, k) \in Queue!Slots /\ Held(Queue!After(t, k))
    <2>1. k \in 0 .. REQUEST_QUEUE_SIZE
      BY SizeIs
    <2>2. Queue!After(t, k) \in Queue!Slots
          /\ Queue!After(t, k) = IF t + k < REQUEST_QUEUE_SIZE
                                  THEN t + k ELSE t + k - REQUEST_QUEUE_SIZE
      BY <2>1, Around
    <2> QED
      BY <2>2, SizeIs DEF Queue!Slots
  <1>2. ASSUME NEW i \in Queue!Slots, Held(i)
        PROVE  \E k \in 0 .. (n - 1) : Queue!After(t, k) = i
    <2> DEFINE k == IF t <= i THEN i - t ELSE i + REQUEST_QUEUE_SIZE - t
    <2>1. k \in 0 .. (n - 1) /\ k \in 0 .. REQUEST_QUEUE_SIZE
      BY <1>2, SizeIs DEF Queue!Slots
    <2>2. Queue!After(t, k) = IF t + k < REQUEST_QUEUE_SIZE
                              THEN t + k ELSE t + k - REQUEST_QUEUE_SIZE
      <3> HIDE DEF k
      <3> QED
        BY <2>1, Around
    <2>3. Queue!After(t, k) = i
      <3>1. CASE t <= i
        BY <2>2, <3>1, SizeIs DEF Queue!Slots
      <3>2. CASE ~(t <= i)
        BY <2>2, <3>2, SizeIs DEF Queue!Slots
      <3> QED
        BY <3>1, <3>2
    <2> QED
      BY <2>1, <2>3
  <1> QED
    BY <1>1, <1>2 DEF Stretch

LEMMA StretchLonger ==
  ASSUME NEW t \in Queue!Slots, NEW n \in Nat, n + 1 < REQUEST_QUEUE_SIZE
  PROVE  /\ Stretch(t, n + 1) = Stretch(t, n) \cup {Queue!After(t, n)}
         /\ Queue!After(t, n) \notin Stretch(t, n)
  <1>1. n \in 0 .. (REQUEST_QUEUE_SIZE - 1) /\ n + 1 \in 0 .. (REQUEST_QUEUE_SIZE - 1)
    BY SizeIs
  <1>2. Queue!After(t, n) \notin Stretch(t, n)
    <2>1. Queue!After(t, n) = IF t + n < REQUEST_QUEUE_SIZE
                              THEN t + n ELSE t + n - REQUEST_QUEUE_SIZE
      BY <1>1, SizeIs, Around
    <2> QED
      BY <1>1, <2>1, StretchIs, SizeIs DEF Queue!Slots
  <1>3. 0 .. n = (0 .. (n - 1)) \cup {n}
    OBVIOUS
  <1> QED
    BY <1>2, <1>3 DEF Stretch

LEMMA StretchShorter ==
  ASSUME NEW t \in Queue!Slots, NEW n \in Nat, NEW m \in Nat, n <= m, m < REQUEST_QUEUE_SIZE
  PROVE  /\ Stretch(t, n) \subseteq Stretch(t, m)
         /\ Queue!After(t, n) \in Queue!Slots
         /\ Stretch(Queue!After(t, n), m - n) = Stretch(t, m) \ Stretch(t, n)
  <1>1. n \in 0 .. (REQUEST_QUEUE_SIZE - 1) /\ m \in 0 .. (REQUEST_QUEUE_SIZE - 1)
        /\ n \in 0 .. REQUEST_QUEUE_SIZE /\ m - n \in 0 .. (REQUEST_QUEUE_SIZE - 1)
    BY SizeIs
  <1>2. Queue!After(t, n) \in Queue!Slots
        /\ Queue!After(t, n) = IF t + n < REQUEST_QUEUE_SIZE
                                THEN t + n ELSE t + n - REQUEST_QUEUE_SIZE
    BY <1>1, Around
  <1>3. Stretch(t, n) \subseteq Stretch(t, m)
    BY <1>1 DEF Stretch
  <1> QED
    BY <1>1, <1>2, <1>3, StretchIs, SizeIs DEF Queue!Slots

LEMMA StretchCount ==
  ASSUME NEW t \in Queue!Slots, NEW n \in 0 .. (REQUEST_QUEUE_SIZE - 1)
  PROVE  IsFiniteSet(Stretch(t, n)) /\ Cardinality(Stretch(t, n)) = n
  <1> DEFINE f == [i \in 0 .. (n - 1) |-> Queue!After(t, i)]
  <1>1. \A i, j \in 0 .. (n - 1) : Queue!After(t, i) = Queue!After(t, j) => i = j
    <2> SUFFICES ASSUME NEW i \in 0 .. (n - 1), NEW j \in 0 .. (n - 1),
                        Queue!After(t, i) = Queue!After(t, j)
                 PROVE  i = j
      OBVIOUS
    <2>1. i \in 0 .. REQUEST_QUEUE_SIZE /\ j \in 0 .. REQUEST_QUEUE_SIZE
      BY SizeIs
    <2>2. /\ Queue!After(t, i) = IF t + i < REQUEST_QUEUE_SIZE
                                  THEN t + i ELSE t + i - REQUEST_QUEUE_SIZE
          /\ Queue!After(t, j) = IF t + j < REQUEST_QUEUE_SIZE
                                  THEN t + j ELSE t + j - REQUEST_QUEUE_SIZE
      BY <2>1, Around
    <2>3. (IF t + i < REQUEST_QUEUE_SIZE THEN t + i ELSE t + i - REQUEST_QUEUE_SIZE)
            = IF t + j < REQUEST_QUEUE_SIZE THEN t + j ELSE t + j - REQUEST_QUEUE_SIZE
      BY <2>2
    <2>4. i \in Nat /\ j \in Nat /\ i < REQUEST_QUEUE_SIZE /\ j < REQUEST_QUEUE_SIZE
          /\ t \in Nat /\ t < REQUEST_QUEUE_SIZE
      BY SizeIs DEF Queue!Slots
    <2> QED
      BY <2>3, <2>4, SizeIs
  <1>2. f \in Bijection(0 .. (n - 1), Stretch(t, n))
    <2>1. f \in [0 .. (n - 1) -> Stretch(t, n)]
      BY DEF Stretch
    <2>2. \A i, j \in 0 .. (n - 1) : f[i] = f[j] => i = j
      BY <1>1
    <2>3. \A s \in Stretch(t, n) : \E i \in 0 .. (n - 1) : f[i] = s
      BY DEF Stretch
    <2> HIDE DEF f
    <2>4. f \in Injection(0 .. (n - 1), Stretch(t, n))
      BY <2>1, <2>2 DEF Injection, IsInjective
    <2>5. f \in Surjection(0 .. (n - 1), Stretch(t, n))
      BY <2>1, <2>3, SMT DEF Surjection
    <2> QED
      BY <2>4, <2>5, Zenon DEF Bijection
  <1>3. IsFiniteSet(0 .. (n - 1)) /\ Cardinality(0 .. (n - 1)) = n
    <2>1. 0 \in Int /\ n - 1 \in Int
      BY SizeIs
    <2>2. IsFiniteSet(0 .. (n - 1))
          /\ Cardinality(0 .. (n - 1)) = IF 0 > n - 1 THEN 0 ELSE (n - 1) - 0 + 1
      BY <2>1, FS_Interval
    <2> QED
      BY <2>2, SizeIs
  <1> QED
    BY <1>2, <1>3, FS_Bijection DEF ExistsBijection

LEMMA CountIs ==
  ASSUME NEW h \in Queue!Slots, NEW t \in Queue!Slots
  PROVE  (h + REQUEST_QUEUE_SIZE - t) % REQUEST_QUEUE_SIZE
           = IF t <= h THEN h - t ELSE h + REQUEST_QUEUE_SIZE - t
  <1>1. h \in Nat /\ t \in Nat /\ h < REQUEST_QUEUE_SIZE /\ t < REQUEST_QUEUE_SIZE
    BY SizeIs DEF Queue!Slots
  <1>2. t <= h => (h + REQUEST_QUEUE_SIZE - t) % REQUEST_QUEUE_SIZE = h - t
    <2> SUFFICES ASSUME t <= h
                 PROVE (h + REQUEST_QUEUE_SIZE - t) % REQUEST_QUEUE_SIZE = h - t
      OBVIOUS
    <2> DEFINE d == h - t
    <2>1. d \in Nat /\ d < REQUEST_QUEUE_SIZE /\ h + REQUEST_QUEUE_SIZE - t = d + REQUEST_QUEUE_SIZE
      BY <1>1, SizeIs
    <2> HIDE DEF d
    <2>2. (d + REQUEST_QUEUE_SIZE) % REQUEST_QUEUE_SIZE = d
      BY <2>1, SizeIs
    <2> QED
      BY <2>1, <2>2 DEF d
  <1>3. t > h => (h + REQUEST_QUEUE_SIZE - t) % REQUEST_QUEUE_SIZE = h + REQUEST_QUEUE_SIZE - t
    BY <1>1, SizeIs
  <1> QED
    BY <1>1, <1>2, <1>3

\* What is between tail t and head h.
Between(h, t) == (h + REQUEST_QUEUE_SIZE - t) % REQUEST_QUEUE_SIZE

LEMMA QueuedIs ==
  ASSUME NEW h \in Queue!Slots, NEW t \in Queue!Slots
  PROVE  /\ Between(h, t) \in 0 .. (REQUEST_QUEUE_SIZE - 1)
         /\ Queue!After(t, Between(h, t)) = h
         /\ h \notin Stretch(t, Between(h, t))
         /\ Stretch(t, Between(h, t)) \subseteq Queue!Slots
         /\ Between(h, t) > 0 => t \in Stretch(t, Between(h, t))
  <1>1. Between(h, t) = IF t <= h THEN h - t ELSE h + REQUEST_QUEUE_SIZE - t
    BY CountIs DEF Between
  <1>2. Between(h, t) \in 0 .. (REQUEST_QUEUE_SIZE - 1)
    BY <1>1, SizeIs DEF Queue!Slots
  <1>3. Queue!After(t, Between(h, t)) = h
    <2>1. Between(h, t) \in 0 .. REQUEST_QUEUE_SIZE
      BY <1>2, SizeIs
    <2>2. Queue!After(t, Between(h, t))
            = IF t + Between(h, t) < REQUEST_QUEUE_SIZE
              THEN t + Between(h, t) ELSE t + Between(h, t) - REQUEST_QUEUE_SIZE
      BY <2>1, Around
    <2> QED
      BY <1>1, <2>2, SizeIs DEF Queue!Slots
  <1>4. h \notin Stretch(t, Between(h, t))
    BY <1>1, <1>2, StretchIs, SizeIs DEF Queue!Slots
  <1>5. Between(h, t) > 0 => t \in Stretch(t, Between(h, t))
    BY <1>1, <1>2, StretchIs, SizeIs DEF Queue!Slots
  <1>6. Stretch(t, Between(h, t)) \subseteq Queue!Slots
    BY <1>2, StretchIs
  <1> QED
    BY <1>2, <1>3, <1>4, <1>5, <1>6

LEMMA QueuedAre ==
  /\ Queue!Queued = Stretch(tail, Between(head, tail)) /\ Queue!Count = Between(head, tail)
  /\ Queue!Queued' = Stretch(tail', Between(head', tail'))
  BY DEF Queue!Queued, Queue!Count, Between, Stretch

\* The number of slots between the ends when one of them, or both, move on.
LEMMA Advance ==
  ASSUME NEW h \in Queue!Slots, NEW t \in Queue!Slots
  PROVE  /\ Queue!After(h, 1) \in Queue!Slots /\ Queue!After(h, 1) # h
         /\ Queue!After(h, 1) # t => Between(Queue!After(h, 1), t) = Between(h, t) + 1
                                    /\ Between(h, t) + 1 < REQUEST_QUEUE_SIZE
         /\ Queue!After(h, 1) = t =>
               /\ Between(h, t) > 0
               /\ Between(Queue!After(h, 1), Queue!After(t, 1)) = Between(h, t)
         /\ \A n \in 0 .. Between(h, t) :
               /\ Queue!After(t, n) \in Queue!Slots
               /\ Between(h, Queue!After(t, n)) = Between(h, t) - n
  <1>1. Between(h, t) = IF t <= h THEN h - t ELSE h + REQUEST_QUEUE_SIZE - t
    BY CountIs DEF Between
  <1>2. 1 \in 0 .. REQUEST_QUEUE_SIZE
    BY SizeIs
  <1>3. /\ Queue!After(h, 1) \in Queue!Slots /\ Queue!After(t, 1) \in Queue!Slots
        /\ Queue!After(h, 1) = IF h + 1 < REQUEST_QUEUE_SIZE
                               THEN h + 1 ELSE h + 1 - REQUEST_QUEUE_SIZE
        /\ Queue!After(t, 1) = IF t + 1 < REQUEST_QUEUE_SIZE
                               THEN t + 1 ELSE t + 1 - REQUEST_QUEUE_SIZE
    BY <1>2, Around
  <1>4. \A x, y \in Queue!Slots :
          Between(x, y) = IF y <= x THEN x - y ELSE x + REQUEST_QUEUE_SIZE - y
    BY CountIs DEF Between
  <1>5. ASSUME NEW n \in 0 .. Between(h, t)
        PROVE  /\ Queue!After(t, n) \in Queue!Slots
               /\ Between(h, Queue!After(t, n)) = Between(h, t) - n
    <2>1. n \in 0 .. REQUEST_QUEUE_SIZE
      BY <1>1, SizeIs DEF Queue!Slots
    <2>2. Queue!After(t, n) \in Queue!Slots
          /\ Queue!After(t, n) = IF t + n < REQUEST_QUEUE_SIZE
                                 THEN t + n ELSE t + n - REQUEST_QUEUE_SIZE
      BY <2>1, Around
    <2>3. Between(h, Queue!After(t, n)) = IF Queue!After(t, n) <= h THEN h - Queue!After(t, n)
                                  ELSE h + REQUEST_QUEUE_SIZE - Queue!After(t, n)
      BY <1>4, <2>2
    <2> QED
      BY <1>1, <2>2, <2>3, SizeIs DEF Queue!Slots
  <1>6. Queue!After(h, 1) # h
    BY <1>3, SizeIs DEF Queue!Slots
  <1>7. Queue!After(h, 1) # t => Between(Queue!After(h, 1), t) = Between(h, t) + 1
                                 /\ Between(h, t) + 1 < REQUEST_QUEUE_SIZE
    <2>1. Between(Queue!After(h, 1), t)
            = IF t <= Queue!After(h, 1) THEN Queue!After(h, 1) - t
              ELSE Queue!After(h, 1) + REQUEST_QUEUE_SIZE - t
      BY <1>3, <1>4
    <2>2. CASE h + 1 < REQUEST_QUEUE_SIZE
      BY <1>1, <1>3, <2>1, <2>2, SizeIs DEF Queue!Slots
    <2>3. CASE ~(h + 1 < REQUEST_QUEUE_SIZE)
      BY <1>1, <1>3, <2>1, <2>3, SizeIs DEF Queue!Slots
    <2> QED
      BY <2>2, <2>3
  <1>8. Queue!After(h, 1) = t =>
               /\ Between(h, t) > 0
               /\ Between(Queue!After(h, 1), Queue!After(t, 1)) = Between(h, t)
    BY <1>1, <1>3, <1>4, SizeIs DEF Queue!Slots
  <1> QED
    BY <1>3, <1>5, <1>6, <1>7, <1>8

-----------------------------------------------------------------------------
(* The invariant.                                                          *)

RingTypes ==
    /\ qData \in [Queue!Slots -> [pid : Pids \cup {NoPid}, skipped : Nat, block : Nat]]
    /\ head \in Queue!Slots /\ tail \in Queue!Slots
    /\ overflowed \in BOOLEAN
    /\ logged \in 0 .. MaxLogs /\ dropped \in Nat /\ told \in Nat

Behinds == [pname : BOOLEAN, event : Threads \cup {NoPid}]

LogTypes ==
    /\ event \in {"NULL", "clear", "set"}
    /\ g_got_log \in BOOLEAN /\ freed \in BOOLEAN
    /\ unsignalled \in BOOLEAN
    /\ pid \in [Threads -> Pids \cup {NoPid}]
    /\ alive \in [Pids -> BOOLEAN] /\ entered \in [Pids -> BOOLEAN]
    /\ pname \in [Pids -> BOOLEAN] /\ doubled \in [Pids -> BOOLEAN]
    /\ pname_event \in [Pids -> Threads \cup {NoPid}]
    /\ behind \in [Pids -> Seq(Behinds)]
    /\ at \in [Threads -> {"idle", "set", "add", "log", "signal", "wait", "reset"}]
    /\ woken \in [Threads -> BOOLEAN]
    /\ program \in {"closed", "reading", "waiting", "closing"}
    /\ answers \subseteq Pids
    /\ naming \in Pids \cup {NoPid}
    /\ asked \in [Pids -> 0 .. MaxAsked]

\* Blocks: those of the queue are there, and that of the last entry dropped is
\* still in its slot, which is the next one to be filled.
Dangling == {i \in Queue!Slots \ Queue!Queued : qData[i].block # 0}

Blocks ==
    /\ heap \subseteq 1 .. logged /\ twice \subseteq 1 .. logged
    /\ \A i \in Queue!Slots : qData[i].block <= logged
    /\ \A i \in Queue!Queued : qData[i].block # 0
    /\ \A i, j \in Queue!Slots : qData[i].block = qData[j].block /\ i # j => qData[i].block = 0
    /\ Dangling \subseteq {i \in {head} : overflowed}
    /\ heap = IF freed THEN {} ELSE {qData[i].block : i \in Queue!Queued}
    /\ ~freed => twice = {}
    /\ twice # {} => overflowed /\ twice = {qData[head].block}

\* Pairs of a queued entry and a request it stands for.
Lost(slots) == UNION {{i} \X (1 .. qData[i].skipped) : i \in slots}

Reported ==
    /\ IsFiniteSet(Lost(Queue!Queued))
    /\ dropped = told + Cardinality(Lost(Queue!Queued))
    /\ \A i \in Queue!Slots : qData[i].skipped <= dropped
    /\ dropped <= logged

\* After filter_free nobody is inside, and a program that reads or waits
\* has an event.  Only such a program is in pid_pname_set.
Settled ==
    /\ naming # NoPid => program \in {"reading", "waiting"}
    /\ freed => program = "closed" /\ ~unsignalled /\ \A t \in Threads : at[t] = "idle"
    /\ program \in {"reading", "waiting"} => event # "NULL"

\* A thread is inside for a process there is; the event of that process, if
\* there is one, is a thread's that waits for it.
Inside ==
    /\ \A t \in Threads : at[t] # "idle" => pid[t] \in Pids /\ alive[pid[t]]
    /\ \A t \in Threads : at[t] = "idle" => pid[t] = NoPid
    /\ \A p \in Pids : ~entered[p] => pname_event[p] = NoPid /\ ~pname[p] /\ behind[p] = <<>>
    /\ \A p \in Pids : ~doubled[p] => behind[p] = <<>>
    /\ Queue!EventOnStack

HeardOf == {qData[i].pid : i \in Queue!Queued}

Unheard(p) == p \notin answers /\ ~pname[p] /\ p \notin HeardOf

\* The first time somebody asks for the name of a process only one thread
\* does, and nobody else adds an entry while it is inside.
FirstTimeOf(p) ==
    /\ asked[p] = 0 =>
          /\ Unheard(p) /\ naming # p /\ behind[p] = <<>>
          /\ entered[p] => alive[p]
          /\ \A t \in Threads : pid[t] # p
    /\ asked[p] = 1 =>
          /\ \A t, u \in Threads : pid[t] = p /\ pid[u] = p => t = u
          /\ \A t \in Threads : pid[t] = p =>
                /\ naming # p
                /\ at[t] \in {"set", "add", "log"} => Unheard(p)
                /\ at[t] = "add" => ~entered[p]
                /\ at[t] \in {"log", "signal", "wait", "reset"} =>
                      entered[p] /\ pname_event[p] = t
                /\ pname[p] => woken[t]

FirstTime == \A p \in Pids : FirstTimeOf(p)

LogInv ==
    RingTypes /\ Blocks /\ Reported /\ LogTypes /\ Settled /\ Queue!ReaderWoken /\ Inside /\ FirstTime


-----------------------------------------------------------------------------
(* log_request.                                                            *)

Full == Queue!After(head, 1) = tail

LEMMA LogMoves ==
  ASSUME RingTypes, NEW p, Queue!log_request(p)
  PROVE  /\ head' \in Queue!Slots /\ tail' \in Queue!Slots
         /\ head' = Queue!After(head, 1) /\ head' # head
         /\ Queue!Queued \subseteq Queue!Slots
         /\ head \notin Queue!Queued /\ head' \notin Queue!Queued'
         /\ Full => tail \in Queue!Queued /\ head' = tail
         /\ Full => Queue!Queued' = (Queue!Queued \ {tail}) \cup {head}
         /\ ~Full => Queue!Queued' = Queue!Queued \cup {head}
  <1> DEFINE c == Between(head, tail)
  <1>1. head \in Queue!Slots /\ tail \in Queue!Slots
    BY DEF RingTypes
  <1>2. head' = Queue!After(head, 1) /\ (Full => tail' = Queue!After(tail, 1))
        /\ (~Full => tail' = tail)
    BY DEF Queue!log_request, Full
  <1>3. /\ c \in 0 .. (REQUEST_QUEUE_SIZE - 1) /\ Queue!After(tail, c) = head
        /\ head \notin Stretch(tail, c) /\ Stretch(tail, c) \subseteq Queue!Slots
        /\ c > 0 => tail \in Stretch(tail, c)
    BY <1>1, QueuedIs
  <1>4. /\ Queue!After(head, 1) \in Queue!Slots /\ Queue!After(head, 1) # head
        /\ ~Full => Between(head', tail') = c + 1 /\ c + 1 < REQUEST_QUEUE_SIZE
        /\ Full => c > 0 /\ Between(head', tail') = c
        /\ Full => tail' \in Queue!Slots /\ Between(head, tail') = c - 1
    <2>1. Full => 1 \in 0 .. c
      BY <1>1, <1>3, Advance, SizeIs DEF Full
    <2> QED
      BY <1>1, <1>2, <2>1, Advance DEF Full
  <1>5. Queue!Queued = Stretch(tail, c)
    BY QueuedAre
  <1>6. head' \notin Queue!Queued'
    BY <1>1, <1>2, <1>4, QueuedIs, QueuedAre
  <1>7. ASSUME ~Full PROVE Queue!Queued' = Queue!Queued \cup {head}
    <2>1. Queue!Queued' = Stretch(tail, c + 1)
      BY <1>2, <1>4, <1>7, QueuedAre
    <2>2. Stretch(tail, c + 1) = Stretch(tail, c) \cup {Queue!After(tail, c)}
      <3>1. c \in Nat /\ c + 1 < REQUEST_QUEUE_SIZE
        BY <1>3, <1>4, <1>7, SizeIs
      <3> HIDE DEF c
      <3> QED
        BY <1>1, <3>1, StretchLonger
    <2> QED
      BY <1>3, <1>5, <2>1, <2>2
  <1>8. ASSUME Full PROVE Queue!Queued' = (Queue!Queued \ {tail}) \cup {head}
    <2> DEFINE t == Queue!After(tail, 1)
               b == c - 1
    <2>1. Queue!Queued' = Stretch(t, c) /\ b \in Nat /\ c = b + 1 /\ b + 1 < REQUEST_QUEUE_SIZE
          /\ t \in Queue!Slots /\ 1 <= c /\ c \in Nat
      BY <1>2, <1>3, <1>4, <1>8, SizeIs, QueuedAre
    <2>2. Stretch(t, c) = Stretch(t, b) \cup {Queue!After(t, b)}
      <3> HIDE DEF t, b, c
      <3> QED
        BY <2>1, StretchLonger
    <2>3. Queue!After(t, b) = head
      <3>1. Between(head, t) = b
        BY <1>2, <1>4, <1>8
      <3> HIDE DEF t, b, c
      <3> QED
        BY <1>1, <2>1, <3>1, QueuedIs
    <2>4. Stretch(t, b) = Stretch(tail, c) \ Stretch(tail, 1)
      <3>1. 1 \in Nat /\ c < REQUEST_QUEUE_SIZE
        BY <2>1, SizeIs
      <3> HIDE DEF c
      <3> QED
        BY <1>1, <2>1, <3>1, StretchShorter
    <2>5. Stretch(tail, 1) = {tail}
      <3>1. Queue!After(tail, 0) = tail
        <4>1. 0 \in 0 .. REQUEST_QUEUE_SIZE
          BY SizeIs
        <4> QED
          BY <1>1, <4>1, Around, SizeIs DEF Queue!Slots
      <3>2. 0 .. (1 - 1) = {0}
        OBVIOUS
      <3> QED
        BY <3>1, <3>2 DEF Stretch
    <2> HIDE DEF t, b, c
    <2> QED
      BY <1>5, <2>1, <2>2, <2>3, <2>4, <2>5
  <1> QED
    BY <1>1, <1>2, <1>3, <1>4, <1>5, <1>6, <1>7, <1>8 DEF Full

LEMMA LogBlocks ==
  ASSUME RingTypes, Blocks, NEW p \in Pids \cup {NoPid}, Queue!log_request(p), ~freed, ~freed'
  PROVE  /\ qData' \in [Queue!Slots -> [pid : Pids \cup {NoPid}, skipped : Nat, block : Nat]]
         /\ logged' \in 0 .. MaxLogs /\ overflowed' \in BOOLEAN
         /\ Blocks'
  <1> USE DEF Full
  <1>1. logged \in Nat /\ logged < MaxLogs /\ logged' = logged + 1 /\ MaxLogs \in Nat
    BY PartsAssumption DEF RingTypes, Queue!log_request, Queue!TdiLogAssumption
  <1>2. logged' \in 0 .. MaxLogs /\ overflowed' \in BOOLEAN
    BY <1>1 DEF Queue!log_request
  <1>3. \E k \in Nat : qData' = [qData EXCEPT ![head] =
                                   [pid |-> p, skipped |-> k, block |-> logged + 1]]
    <2>1. qData[tail].skipped + 1 \in Nat
      BY DEF RingTypes
    <2> QED
      BY <2>1 DEF Queue!log_request
  <1>4. qData' \in [Queue!Slots -> [pid : Pids \cup {NoPid}, skipped : Nat, block : Nat]]
    <2>1. PICK k \in Nat : qData' = [qData EXCEPT ![head] =
                                   [pid |-> p, skipped |-> k, block |-> logged + 1]]
      BY <1>3
    <2>2. [pid |-> p, skipped |-> k, block |-> logged + 1]
            \in [pid : Pids \cup {NoPid}, skipped : Nat, block : Nat]
      BY <1>1
    <2> QED
      BY <2>1, <2>2 DEF RingTypes
  <1>5. /\ \A i \in Queue!Slots : qData'[i].block = IF i = head THEN logged + 1 ELSE qData[i].block
        /\ \A i \in Queue!Slots : qData[i].block \in Nat
    BY <1>3 DEF RingTypes
  <1>6. /\ head \in Queue!Slots /\ tail \in Queue!Slots
        /\ heap' = (heap \ (IF Full THEN {qData[tail].block} ELSE {})) \cup {logged + 1}
        /\ twice' = twice \cup (IF Full THEN {qData[tail].block} \ heap ELSE {})
        /\ overflowed' = Full
    BY DEF RingTypes, Queue!log_request
  <1>7. /\ twice = {} /\ heap = {qData[i].block : i \in Queue!Queued}
        /\ heap \subseteq 1 .. logged
        /\ \A i \in Queue!Slots : qData[i].block <= logged
        /\ \A i \in Queue!Queued : qData[i].block # 0
        /\ \A i, j \in Queue!Slots : qData[i].block = qData[j].block /\ i # j => qData[i].block = 0
        /\ Dangling \subseteq {i \in {head} : overflowed}
    BY DEF Blocks
  <1>8. twice' = {}
    BY <1>6, <1>7, LogMoves
  <1>9. heap' = {qData'[i].block : i \in Queue!Queued'}
    <2>1. Queue!Queued' \subseteq Queue!Slots
      BY <1>6, LogMoves
    <2>2. CASE Full
      BY <1>5, <1>6, <1>7, <2>1, <2>2, LogMoves
    <2>3. CASE ~Full
      BY <1>5, <1>6, <1>7, <2>1, <2>3, LogMoves
    <2> QED
      BY <2>2, <2>3
  <1>10. heap' \subseteq 1 .. logged'
    BY <1>1, <1>6, <1>7
  <1>11. /\ \A i \in Queue!Slots : qData'[i].block <= logged'
         /\ \A i \in Queue!Queued' : qData'[i].block # 0
    BY <1>1, <1>5, <1>6, <1>7, LogMoves
  <1>12. \A i, j \in Queue!Slots :
           qData'[i].block = qData'[j].block /\ i # j => qData'[i].block = 0
    <2> SUFFICES ASSUME NEW i \in Queue!Slots, NEW j \in Queue!Slots, i # j,
                        qData'[i].block = qData'[j].block
                 PROVE  qData'[i].block = 0
      OBVIOUS
    <2>1. i # head /\ j # head
      BY <1>1, <1>5, <1>7
    <2> QED
      BY <1>5, <1>7, <2>1
  <1>13. Dangling' \subseteq {i \in {head'} : overflowed'}
    <2>1. Dangling' = {i \in Queue!Slots \ Queue!Queued' : qData'[i].block # 0}
      BY DEF Dangling, Queue!Slots
    <2> SUFFICES ASSUME NEW i \in Queue!Slots, i \notin Queue!Queued', qData'[i].block # 0
                 PROVE  i = head' /\ overflowed'
      BY <2>1
    <2>2. i # head /\ qData[i].block # 0
      BY <1>5, LogMoves
    <2>3. i \in Queue!Queued
      <3>1. i \in Dangling => i = head
        BY <1>7
      <3> QED
        BY <2>2, <3>1 DEF Dangling
    <2> QED
      BY <1>6, <2>2, <2>3, LogMoves
  <1> QED
    BY <1>2, <1>4, <1>8, <1>9, <1>10, <1>11, <1>12, <1>13, ~freed' DEF Blocks

-----------------------------------------------------------------------------
(* What entries stand for.                                                 *)

LEMMA PairsOfSlot ==
  ASSUME NEW i, NEW n \in Nat
  PROVE  IsFiniteSet({i} \X (1 .. n)) /\ Cardinality({i} \X (1 .. n)) = n
  <1>1. IsFiniteSet({i}) /\ Cardinality({i}) = 1
    BY FS_Singleton
  <1>2. IsFiniteSet(1 .. n) /\ Cardinality(1 .. n) = n
    BY FS_Interval
  <1>3. IsFiniteSet({i} \X (1 .. n))
        /\ Cardinality({i} \X (1 .. n)) = Cardinality({i}) * Cardinality(1 .. n)
    BY <1>1, <1>2, FS_Product
  <1> QED
    BY <1>1, <1>2, <1>3

\* Two parts that have nothing in common.
LEMMA PartsAdd ==
  ASSUME NEW S, NEW T, IsFiniteSet(S), IsFiniteSet(T), S \cap T = {}
  PROVE  IsFiniteSet(S \cup T) /\ Cardinality(S \cup T) = Cardinality(S) + Cardinality(T)
         /\ Cardinality(S) \in Nat /\ Cardinality(T) \in Nat
  <1>1. IsFiniteSet(S \cup T)
        /\ Cardinality(S \cup T) = Cardinality(S) + Cardinality(T) - Cardinality(S \cap T)
    BY FS_Union
  <1>2. Cardinality(S \cap T) = 0
    BY FS_EmptySet
  <1>3. Cardinality(S) \in Nat /\ Cardinality(T) \in Nat
    BY FS_CardinalityType
  <1> QED
    BY <1>1, <1>2, <1>3

LEMMA LogReported ==
  ASSUME RingTypes, Reported, NEW p, Queue!log_request(p), told' = told
  PROVE  dropped' \in Nat /\ Reported'
  <1> DEFINE rest == Queue!Queued \ {tail}
             s == qData[tail].skipped
  <1>1. head \in Queue!Slots /\ tail \in Queue!Slots /\ s \in Nat /\ logged \in Nat
        /\ dropped \in Nat /\ told \in Nat
    BY PartsAssumption DEF RingTypes, Queue!TdiLogAssumption
  <1>2. /\ qData' = [qData EXCEPT ![head] =
                       [pid |-> p, skipped |-> IF Full THEN s + 1 ELSE 0, block |-> logged + 1]]
        /\ dropped' = IF Full THEN dropped + 1 ELSE dropped
        /\ logged' = logged + 1
    BY DEF Queue!log_request, Full
  <1>3. \A i \in Queue!Queued : i # head /\ i \in Queue!Slots /\ qData'[i] = qData[i]
    BY <1>2, LogMoves DEF RingTypes
  <1>4. qData'[head].skipped = IF Full THEN s + 1 ELSE 0
    BY <1>1, <1>2 DEF RingTypes
  <1>5. IsFiniteSet(Lost(Queue!Queued)) /\ Cardinality(Lost(Queue!Queued)) \in Nat
        /\ dropped = told + Cardinality(Lost(Queue!Queued)) /\ dropped <= logged
    BY FS_CardinalityType DEF Reported
  <1>8. \A i \in Queue!Slots : qData'[i].skipped <= dropped'
    <2>1. \A i \in Queue!Slots : qData[i].skipped \in Nat /\ qData[i].skipped <= dropped
      BY DEF RingTypes, Reported
    <2>2. \A i \in Queue!Slots : qData'[i].skipped = IF i = head THEN IF Full THEN s + 1 ELSE 0
                                                     ELSE qData[i].skipped
      BY <1>2 DEF RingTypes
    <2>3. CASE Full
      BY <1>1, <1>2, <2>1, <2>2, <2>3
    <2>4. CASE ~Full
      BY <1>1, <1>2, <2>1, <2>2, <2>4
    <2> QED
      BY <2>3, <2>4
  <1>9. Queue!Slots' = Queue!Slots
    BY DEF Queue!Slots
  <1>6. CASE ~Full
    <2>1. Queue!Queued' = Queue!Queued \cup {head}
      BY <1>6, LogMoves
    <2>2. Lost(Queue!Queued)' = Lost(Queue!Queued)
      <3>1. {head} \X (1 .. qData'[head].skipped) = {}
        BY <1>4, <1>6
      <3> QED
        BY <1>3, <2>1, <3>1 DEF Lost
    <2> QED
      BY <1>1, <1>2, <1>5, <1>6, <1>8, <1>9, <2>2 DEF Reported
  <1>7. CASE Full
    <2> DEFINE R == UNION {{i} \X (1 .. qData[i].skipped) : i \in rest}
    <2>1. Queue!Queued' = rest \cup {head} /\ tail \in Queue!Queued
      BY <1>7, LogMoves
    <2>2. Lost(Queue!Queued) = R \cup ({tail} \X (1 .. s))
      BY <2>1 DEF Lost
    <2>3. Lost(Queue!Queued)' = R \cup ({head} \X (1 .. (s + 1)))
      <3>1. Lost(Queue!Queued)' = UNION {{i} \X (1 .. qData'[i].skipped) : i \in rest \cup {head}}
        BY <2>1 DEF Lost
      <3>2. {{i} \X (1 .. qData'[i].skipped) : i \in rest \cup {head}} =
              {{i} \X (1 .. qData[i].skipped) : i \in rest} \cup {{head} \X (1 .. (s + 1))}
        BY <1>3, <1>4, <1>7
      <3> QED
        BY <3>1, <3>2
    <2>4. R \cap ({tail} \X (1 .. s)) = {} /\ R \cap ({head} \X (1 .. (s + 1))) = {}
      BY <1>3
    <2>5. IsFiniteSet(R)
      BY <1>5, <2>2, FS_Subset
    <2> HIDE DEF R
    <2>6. Cardinality(Lost(Queue!Queued)) = Cardinality(R) + s /\ Cardinality(R) \in Nat
      <3>1. Cardinality({tail} \X (1 .. s)) = s /\ IsFiniteSet({tail} \X (1 .. s))
        BY <1>1, PairsOfSlot
      <3> QED
        BY <2>2, <2>4, <2>5, <3>1, PartsAdd
    <2>7. IsFiniteSet(Lost(Queue!Queued)')
          /\ Cardinality(Lost(Queue!Queued)') = Cardinality(R) + (s + 1)
      <3>1. s + 1 \in Nat
        BY <1>1
      <3>2. Cardinality({head} \X (1 .. (s + 1))) = s + 1
            /\ IsFiniteSet({head} \X (1 .. (s + 1)))
        BY <3>1, PairsOfSlot
      <3>3. R \cap ({head} \X (1 .. (s + 1))) = {}
        BY <2>4
      <3> HIDE DEF s, rest
      <3>4. IsFiniteSet(R \cup ({head} \X (1 .. (s + 1))))
            /\ Cardinality(R \cup ({head} \X (1 .. (s + 1)))) = Cardinality(R) + (s + 1)
        BY <2>5, <3>2, <3>3, PartsAdd
      <3> QED
        BY <2>3, <3>4
    <2>8. dropped' = dropped + 1
      BY <1>2, <1>7
    <2> HIDE DEF s, rest
    <2>9. dropped' = told' + Cardinality(Lost(Queue!Queued)')
      BY <1>1, <1>5, <2>6, <2>7, <2>8
    <2> QED
      BY <1>1, <1>2, <1>5, <1>8, <1>9, <2>7, <2>8, <2>9 DEF Reported
  <1> QED
    BY <1>6, <1>7

-----------------------------------------------------------------------------
(* get_request.                                                            *)

LEMMA GetMoves ==
  ASSUME RingTypes, NEW n \in 0 .. Queue!Count, Queue!get_request(n)
  PROVE  /\ tail' \in Queue!Slots /\ head' = head
         /\ Stretch(tail, n) \subseteq Queue!Queued /\ Queue!Queued \subseteq Queue!Slots
         /\ Queue!Queued' = Queue!Queued \ Stretch(tail, n)
         /\ Queue!Count' = Queue!Count - n
         /\ Queue!Count \in Nat
  <1> DEFINE c == Between(head, tail)
  <1>1. head \in Queue!Slots /\ tail \in Queue!Slots
    BY DEF RingTypes
  <1>2. head' = head /\ tail' = Queue!After(tail, n)
    BY DEF Queue!get_request
  <1>3. Queue!Queued = Stretch(tail, c) /\ Queue!Count = c /\ c \in 0 .. (REQUEST_QUEUE_SIZE - 1)
        /\ Stretch(tail, c) \subseteq Queue!Slots
    BY <1>1, QueuedIs, QueuedAre
  <1>4. Queue!After(tail, n) \in Queue!Slots /\ Between(head', tail') = c - n
    BY <1>1, <1>2, <1>3, Advance
  <1>5. n \in Nat /\ c \in Nat /\ n <= c /\ c < REQUEST_QUEUE_SIZE
    BY <1>3, SizeIs
  <1> HIDE DEF c
  <1>6. Stretch(tail, n) \subseteq Stretch(tail, c)
        /\ Stretch(Queue!After(tail, n), c - n) = Stretch(tail, c) \ Stretch(tail, n)
    BY <1>1, <1>5, StretchShorter
  <1>7. Queue!Queued' = Stretch(tail', Between(head', tail'))
    BY QueuedAre
  <1>8. Queue!Count' = Between(head', tail')
    BY DEF Queue!Count, Between
  <1> QED
    BY <1>2, <1>3, <1>4, <1>5, <1>6, <1>7, <1>8

LEMMA GetBlocks ==
  ASSUME RingTypes, Blocks, NEW n \in 0 .. Queue!Count, Queue!get_request(n), ~freed, ~freed'
  PROVE  /\ qData' \in [Queue!Slots -> [pid : Pids \cup {NoPid}, skipped : Nat, block : Nat]]
         /\ Blocks'
  <1> DEFINE taken == Stretch(tail, n)
  <1>1. /\ qData' = [i \in Queue!Slots |-> IF i \in taken THEN [qData[i] EXCEPT !.block = 0]
                                           ELSE qData[i]]
        /\ heap' = heap \ {qData[i].block : i \in taken}
        /\ twice' = twice \cup ({qData[i].block : i \in taken} \ heap)
        /\ logged' = logged /\ overflowed' = overflowed
    BY DEF Queue!get_request, Stretch
  <1>2. \A i \in Queue!Slots : qData[i] \in [pid : Pids \cup {NoPid}, skipped : Nat, block : Nat]
    BY DEF RingTypes
  <1>3. qData' \in [Queue!Slots -> [pid : Pids \cup {NoPid}, skipped : Nat, block : Nat]]
    BY <1>1, <1>2
  <1>4. \A i \in Queue!Slots : qData'[i].block = IF i \in taken THEN 0 ELSE qData[i].block
    BY <1>1, <1>2
  <1>5. /\ head' = head /\ taken \subseteq Queue!Queued /\ Queue!Queued \subseteq Queue!Slots
        /\ Queue!Queued' = Queue!Queued \ taken
    BY GetMoves
  <1>6. twice = {} /\ heap = {qData[i].block : i \in Queue!Queued} /\ heap \subseteq 1 .. logged
        /\ (\A i \in Queue!Slots : qData[i].block <= logged)
        /\ (\A i \in Queue!Queued : qData[i].block # 0)
        /\ (\A i, j \in Queue!Slots : qData[i].block = qData[j].block /\ i # j => qData[i].block = 0)
        /\ Dangling \subseteq {i \in {head} : overflowed}
    BY DEF Blocks
  <1>7. twice' = {}
    BY <1>1, <1>5, <1>6
  <1>8. heap' = {qData'[i].block : i \in Queue!Queued'}
    BY <1>1, <1>4, <1>5, <1>6
  <1>9. heap' \subseteq 1 .. logged'
    BY <1>1, <1>6
  <1>10. (\A i \in Queue!Slots : qData'[i].block <= logged')
         /\ (\A i \in Queue!Queued' : qData'[i].block # 0)
    <2>1. logged \in Nat
      BY PartsAssumption DEF RingTypes, Queue!TdiLogAssumption
    <2> QED
      BY <1>1, <1>4, <1>5, <1>6, <2>1
  <1>11. \A i, j \in Queue!Slots :
           qData'[i].block = qData'[j].block /\ i # j => qData'[i].block = 0
    BY <1>4, <1>6
  <1>12. Dangling' \subseteq {i \in {head'} : overflowed'}
    <2>1. Dangling' = {i \in Queue!Slots \ Queue!Queued' : qData'[i].block # 0}
      BY DEF Dangling, Queue!Slots
    <2>2. Dangling' \subseteq Dangling
      BY <1>4, <1>5, <2>1 DEF Dangling
    <2> QED
      BY <1>1, <1>5, <1>6, <2>2
  <1> QED
    BY <1>3, <1>7, <1>8, <1>9, <1>10, <1>11, <1>12, ~freed' DEF Blocks

LEMMA CountSame == \A S : Queue!Cardinality(S) = Cardinality(S)
  BY DEF Queue!Cardinality, Cardinality

LEMMA GetReported ==
  ASSUME RingTypes, Reported, NEW n \in 0 .. Queue!Count, Queue!get_request(n)
  PROVE  told' \in Nat /\ dropped' \in Nat /\ Reported'
  <1> DEFINE taken == Stretch(tail, n)
             A == UNION {{i} \X (1 .. qData[i].skipped) : i \in taken}
             B == UNION {{i} \X (1 .. qData[i].skipped) : i \in Queue!Queued \ taken}
  <1>1. /\ qData' = [i \in Queue!Slots |-> IF i \in taken THEN [qData[i] EXCEPT !.block = 0]
                                           ELSE qData[i]]
        /\ told' = told + Queue!Skipped(taken)
        /\ dropped' = dropped /\ logged' = logged
    BY DEF Queue!get_request, Stretch
  <1>2. \A i \in Queue!Slots : qData[i] \in [pid : Pids \cup {NoPid}, skipped : Nat, block : Nat]
    BY DEF RingTypes
  <1>3. \A i \in Queue!Slots : qData'[i].skipped = qData[i].skipped
    BY <1>1, <1>2
  <1>4. /\ taken \subseteq Queue!Queued /\ Queue!Queued \subseteq Queue!Slots
        /\ Queue!Queued' = Queue!Queued \ taken
    BY GetMoves
  <1>5. IsFiniteSet(Lost(Queue!Queued)) /\ Cardinality(Lost(Queue!Queued)) \in Nat
        /\ dropped = told + Cardinality(Lost(Queue!Queued)) /\ dropped <= logged
        /\ told \in Nat /\ dropped \in Nat
    BY FS_CardinalityType DEF Reported, RingTypes
  <1>6. Lost(Queue!Queued) = A \cup B
    BY <1>4 DEF Lost
  <1>7. Lost(Queue!Queued)' = B
    <2>1. Lost(Queue!Queued)' = UNION {{i} \X (1 .. qData'[i].skipped) : i \in Queue!Queued \ taken}
      BY <1>4 DEF Lost
    <2>2. {{i} \X (1 .. qData'[i].skipped) : i \in Queue!Queued \ taken} =
            {{i} \X (1 .. qData[i].skipped) : i \in Queue!Queued \ taken}
      BY <1>3, <1>4
    <2> QED
      BY <2>1, <2>2
  <1>8. Queue!Skipped(taken) = Cardinality(A)
    BY CountSame DEF Queue!Skipped
  <1>9. IsFiniteSet(A) /\ IsFiniteSet(B) /\ A \cap B = {}
    BY <1>5, <1>6, FS_Subset
  <1> HIDE DEF A, B, taken
  <1>10. Cardinality(A) \in Nat /\ Cardinality(B) \in Nat
         /\ Cardinality(Lost(Queue!Queued)) = Cardinality(A) + Cardinality(B)
    BY <1>6, <1>9, PartsAdd
  <1>11. \A i \in Queue!Slots' : qData'[i].skipped <= dropped'
    BY <1>1, <1>3 DEF Reported, Queue!Slots
  <1> QED
    BY <1>1, <1>5, <1>7, <1>8, <1>9, <1>10, <1>11 DEF Reported

-----------------------------------------------------------------------------
(* Every step.                                                             *)

\* What a step does to the queue.
LEMMA LogKinds ==
  ASSUME LogInv, [Queue!Next]_(Queue!logVars)
  PROVE  \/ UNCHANGED <<qData, head, tail, heap, twice, logged, dropped, overflowed, told, freed>>
         \/ \E p \in Pids \cup {NoPid} :
              Queue!log_request(p) /\ ~freed /\ UNCHANGED <<freed, told>>
         \/ \E n \in 0 .. Queue!Count : Queue!get_request(n) /\ ~freed /\ UNCHANGED freed
         \/ Queue!filter_free
  <1> USE DEF LogInv, Queue!logVars, Queue!queue, Queue!names, Queue!threads, Queue!user
  <1>1. Queue!Count \in Nat
    BY QueuedIs, QueuedAre, SizeIs DEF RingTypes
  <1>2. CASE UNCHANGED Queue!logVars
    BY <1>2
  <1>3. CASE \E t \in Threads : Queue!tdi_create(t)
    <2> SUFFICES ASSUME NEW t \in Threads, Queue!tdi_create(t)
                 PROVE  \/ UNCHANGED <<qData, head, tail, heap, twice, logged, dropped,
                                       overflowed, told, freed>>
                        \/ \E p \in Pids \cup {NoPid} :
                             Queue!log_request(p) /\ ~freed /\ UNCHANGED <<freed, told>>
      BY <1>3
    <2>1. CASE \E p \in Pids : Queue!CreateResolves(t, p)
      BY <2>1 DEF Queue!CreateResolves
    <2>2. CASE Queue!CreateLogs(t)
      <3>1. pid[t] \in Pids /\ ~freed
        BY <2>2 DEF Queue!CreateLogs, Inside, Settled
      <3>2. UNCHANGED <<freed, told>>
            /\ (Queue!log_request(pid[t]) \/ UNCHANGED Queue!queue)
        BY <2>2 DEF Queue!CreateLogs
      <3> QED
        BY <3>1, <3>2
    <2>3. CASE \/ Queue!CreateSetsEvent(t) \/ Queue!CreateAddsEntry(t)
               \/ Queue!CreateSignals(t) \/ Queue!CreateWaits(t) \/ Queue!CreateResets(t)
      BY <2>3 DEF Queue!CreateSetsEvent, Queue!CreateAddsEntry, Queue!CreateSignals,
                  Queue!CreateWaits, Queue!CreateResets
    <2> QED
      BY <2>1, <2>2, <2>3 DEF Queue!tdi_create
  <1>4. CASE (\E p \in Pids : Queue!ProcessCreated(p) \/ Queue!ProcessEnds(p)) \/ Queue!Signal
    BY <1>4 DEF Queue!ProcessCreated, Queue!ProcessEnds, Queue!Signal
  <1>5. CASE Queue!Log
    BY <1>5 DEF Queue!Log
  <1>6. CASE Queue!ProgramReads
    <2>1. PICK room \in 1 .. MaxRead :
             Queue!get_request(IF Queue!Count < room THEN Queue!Count ELSE room)
      BY <1>6 DEF Queue!ProgramReads
    <2>2. (IF Queue!Count < room THEN Queue!Count ELSE room) \in 0 .. Queue!Count
      BY <1>1
    <2>3. ~freed /\ UNCHANGED freed
      BY <1>6 DEF Queue!ProgramReads, Settled
    <2> QED
      BY <2>1, <2>2, <2>3
  <1>7. CASE \/ Queue!ProgramOpens \/ Queue!ProgramCloses \/ Queue!ProgramClosed
             \/ Queue!ProgramWakes \/ Queue!ProgramAdds
             \/ \E p \in Pids : Queue!ProgramAnswers(p)
    BY <1>7 DEF Queue!ProgramOpens, Queue!ProgramCloses, Queue!ProgramClosed,
                Queue!ProgramWakes, Queue!ProgramAdds, Queue!ProgramAnswers
  <1>8. CASE Queue!filter_free
    BY <1>8
  <1> QED
    BY <1>2, <1>3, <1>4, <1>5, <1>6, <1>7, <1>8 DEF Queue!Next, Queue!Program

LEMMA FreeBlocks ==
  ASSUME RingTypes, Blocks, Queue!filter_free
  PROVE  Blocks'
  <1> DEFINE left == {qData[i].block : i \in Queue!Slots} \ {0}
  <1>1. /\ heap' = heap \ left /\ twice' = twice \cup (left \ heap) /\ ~freed /\ freed'
        /\ UNCHANGED <<qData, head, tail, logged, overflowed>>
    BY DEF Queue!filter_free
  <1>2. Queue!Queued' = Queue!Queued /\ Dangling' = Dangling
    BY <1>1 DEF Queue!Queued, Queue!Count, Queue!After, Dangling, Queue!Slots
  <1>3. /\ twice = {} /\ heap = {qData[i].block : i \in Queue!Queued}
        /\ heap \subseteq 1 .. logged
        /\ \A i \in Queue!Slots : qData[i].block <= logged
        /\ \A i \in Queue!Queued : qData[i].block # 0
        /\ \A i, j \in Queue!Slots : qData[i].block = qData[j].block /\ i # j => qData[i].block = 0
        /\ Dangling \subseteq {i \in {head} : overflowed}
    BY <1>1 DEF Blocks
  <1>4. Queue!Queued \subseteq Queue!Slots
    BY QueuedIs, QueuedAre DEF RingTypes
  <1>5. heap' = {}
    BY <1>1, <1>3, <1>4
  <1>6. twice' = {qData[i].block : i \in Dangling}
    BY <1>1, <1>3, <1>4 DEF Dangling
  <1>7. \A i \in Queue!Slots : qData[i].block \in Nat
    BY DEF RingTypes
  <1>8. twice' \subseteq 1 .. logged'
    <2>1. logged \in Nat
      BY PartsAssumption DEF RingTypes, Queue!TdiLogAssumption
    <2> QED
      BY <1>1, <1>3, <1>6, <1>7, <2>1 DEF Dangling
  <1>9. twice' # {} => overflowed' /\ twice' = {qData'[head'].block}
    BY <1>1, <1>3, <1>6
  <1> QED
    BY <1>1, <1>2, <1>3, <1>5, <1>8, <1>9 DEF Blocks

\* The ring, and what of it the program may hear.
LEMMA RingStep ==
  ASSUME LogInv, [Queue!Next]_(Queue!logVars)
  PROVE  RingTypes' /\ Blocks' /\ Reported'
  <1> USE DEF LogInv
  <1>1. CASE UNCHANGED <<qData, head, tail, heap, twice, logged, dropped, overflowed, told, freed>>
    <2>1. Queue!Queued' = Queue!Queued
      BY <1>1 DEF Queue!Queued, Queue!Count, Queue!After
    <2>2. Dangling' = Dangling /\ Lost(Queue!Queued)' = Lost(Queue!Queued)
      BY <1>1, <2>1 DEF Dangling, Lost, Queue!Slots
    <2>3. RingTypes'
      BY <1>1 DEF RingTypes, Queue!Slots
    <2>4. Blocks'
      BY <1>1, <2>1, <2>2 DEF Blocks, Queue!Slots
    <2>5. Reported'
      BY <1>1, <2>2 DEF Reported, Queue!Slots
    <2> QED
      BY <2>3, <2>4, <2>5
  <1>2. ASSUME NEW p \in Pids \cup {NoPid},
               Queue!log_request(p), ~freed, UNCHANGED <<freed, told>>
        PROVE  RingTypes' /\ Blocks' /\ Reported'
    <2>1. ~freed' /\ told' = told /\ told \in Nat
      BY <1>2 DEF RingTypes
    <2>2. head' \in Queue!Slots /\ tail' \in Queue!Slots
      BY <1>2, LogMoves
    <2>3. /\ qData' \in [Queue!Slots -> [pid : Pids \cup {NoPid}, skipped : Nat, block : Nat]]
          /\ logged' \in 0 .. MaxLogs /\ overflowed' \in BOOLEAN
          /\ Blocks'
      BY <1>2, <2>1, LogBlocks
    <2>4. dropped' \in Nat /\ Reported'
      BY <1>2, <2>1, LogReported
    <2> QED
      BY <2>1, <2>2, <2>3, <2>4 DEF RingTypes, Queue!Slots
  <1>3. ASSUME NEW n \in 0 .. Queue!Count, Queue!get_request(n), ~freed, UNCHANGED freed
        PROVE  RingTypes' /\ Blocks' /\ Reported'
    <2>1. ~freed' /\ logged' = logged /\ overflowed' = overflowed
      BY <1>3 DEF Queue!get_request
    <2>2. head' \in Queue!Slots /\ tail' \in Queue!Slots
      BY <1>3, GetMoves DEF RingTypes
    <2>3. /\ qData' \in [Queue!Slots -> [pid : Pids \cup {NoPid}, skipped : Nat, block : Nat]]
          /\ Blocks'
      BY <1>3, <2>1, GetBlocks
    <2>4. told' \in Nat /\ dropped' \in Nat /\ Reported'
      BY <1>3, GetReported
    <2> QED
      BY <2>1, <2>2, <2>3, <2>4 DEF RingTypes, Queue!Slots
  <1>4. CASE Queue!filter_free
    <2>1. UNCHANGED <<qData, head, tail, logged, dropped, overflowed, told>>
      BY <1>4 DEF Queue!filter_free
    <2>2. RingTypes'
      BY <2>1 DEF RingTypes, Queue!Slots
    <2>3. Reported'
      BY <2>1 DEF Reported, Lost, Queue!Queued, Queue!Count, Queue!After, Queue!Slots
    <2> QED
      BY <1>4, <2>2, <2>3, FreeBlocks
  <1> QED
    BY <1>1, <1>2, <1>3, <1>4, LogKinds

\* The processes the program may hear of.
LEMMA HeardStep ==
  ASSUME RingTypes
  PROVE  /\ UNCHANGED Queue!queue => HeardOf' = HeardOf /\ Queue!Count' = Queue!Count
         /\ \A p : Queue!log_request(p) => HeardOf' \subseteq HeardOf \cup {p}
         /\ \A n \in 0 .. Queue!Count : Queue!get_request(n) =>
              /\ HeardOf' \subseteq HeardOf
              /\ answers' \subseteq answers \cup (HeardOf \ {NoPid})
              /\ Queue!Count' = Queue!Count - n
         /\ Queue!Count \in Nat
  <1>1. UNCHANGED Queue!queue => HeardOf' = HeardOf /\ Queue!Count' = Queue!Count
    BY DEF Queue!queue, HeardOf, Queue!Queued, Queue!Count, Queue!After
  <1>2. ASSUME NEW p, Queue!log_request(p) PROVE HeardOf' \subseteq HeardOf \cup {p}
    <2>1. \E k, b : qData' = [qData EXCEPT ![head] = [pid |-> p, skipped |-> k, block |-> b]]
      BY <1>2 DEF Queue!log_request
    <2>2. qData'[head].pid = p /\ \A i \in Queue!Slots : i # head => qData'[i] = qData[i]
      BY <2>1 DEF RingTypes
    <2>3. Queue!Queued' \subseteq Queue!Queued \cup {head} /\ Queue!Queued \subseteq Queue!Slots
      BY <1>2, LogMoves
    <2> QED
      BY <2>2, <2>3 DEF HeardOf
  <1>3. ASSUME NEW n \in 0 .. Queue!Count, Queue!get_request(n)
        PROVE  /\ HeardOf' \subseteq HeardOf
               /\ answers' \subseteq answers \cup (HeardOf \ {NoPid})
               /\ Queue!Count' = Queue!Count - n
    <2>1. /\ Stretch(tail, n) \subseteq Queue!Queued /\ Queue!Queued \subseteq Queue!Slots
          /\ Queue!Queued' = Queue!Queued \ Stretch(tail, n)
          /\ Queue!Count' = Queue!Count - n
      BY <1>3, GetMoves
    <2>2. /\ qData' = [i \in Queue!Slots |-> IF i \in Stretch(tail, n)
                                             THEN [qData[i] EXCEPT !.block = 0] ELSE qData[i]]
          /\ answers' = answers \cup ({qData[i].pid : i \in Stretch(tail, n)} \ {NoPid})
      BY <1>3 DEF Queue!get_request, Stretch
    <2>3. \A i \in Queue!Slots : qData'[i].pid = qData[i].pid
      BY <2>2 DEF RingTypes
    <2> QED
      BY <2>1, <2>2, <2>3 DEF HeardOf
  <1>4. Queue!Count \in Nat
    BY QueuedIs, QueuedAre, SizeIs DEF RingTypes
  <1> QED
    BY <1>1, <1>2, <1>3, <1>4

Control == LogTypes /\ Settled /\ Queue!ReaderWoken /\ Inside /\ FirstTime

\* What add_ple does: it does not touch the first entry of any process.
Added(p, name, t) ==
    /\ entered' \in [Pids -> BOOLEAN] /\ pname' \in [Pids -> BOOLEAN]
    /\ doubled' \in [Pids -> BOOLEAN] /\ behind' \in [Pids -> Seq(Behinds)]
    /\ pname_event' \in [Pids -> Threads \cup {NoPid}]
    /\ \A q \in Pids : q # p =>
         /\ entered'[q] = entered[q] /\ pname'[q] = pname[q] /\ doubled'[q] = doubled[q]
         /\ behind'[q] = behind[q] /\ pname_event'[q] = pname_event[q]
    /\ entered'[p]
    /\ entered[p] => doubled'[p] /\ pname'[p] = pname[p] /\ pname_event'[p] = pname_event[p]
    /\ ~entered[p] => /\ doubled'[p] = doubled[p] /\ pname'[p] = name
                      /\ pname_event'[p] = t /\ behind'[p] = <<>>

LEMMA AddEntry ==
  ASSUME LogTypes, Inside, NEW p \in Pids, NEW name \in BOOLEAN, NEW t \in Threads \cup {NoPid},
         Queue!add_ple(p, name, t)
  PROVE  Added(p, name, t)
  <1> USE DEF LogTypes, Queue!add_ple, Added
  <1>1. CASE entered[p]
    <2>1. [pname |-> name, event |-> t] \in Behinds
      BY DEF Behinds
    <2>2. Append(behind[p], [pname |-> name, event |-> t]) \in Seq(Behinds)
      BY <2>1
    <2>3. /\ behind' = [behind EXCEPT ![p] = Append(behind[p], [pname |-> name, event |-> t])]
          /\ doubled' = [doubled EXCEPT ![p] = TRUE]
          /\ UNCHANGED <<entered, pname, pname_event>>
      BY <1>1
    <2>4. behind' \in [Pids -> Seq(Behinds)] /\ \A q \in Pids : q # p => behind'[q] = behind[q]
      BY <2>2, <2>3
    <2>5. doubled' \in [Pids -> BOOLEAN] /\ doubled'[p]
          /\ \A q \in Pids : q # p => doubled'[q] = doubled[q]
      BY <2>3, Zenon
    <2> QED
      BY <1>1, <2>3, <2>4, <2>5
  <1>2. CASE ~entered[p]
    <2>1. /\ entered' = [entered EXCEPT ![p] = TRUE]
          /\ pname' = [pname EXCEPT ![p] = name]
          /\ pname_event' = [pname_event EXCEPT ![p] = t]
          /\ behind' = behind /\ doubled' = doubled
      BY <1>2
    <2>2. entered' \in [Pids -> BOOLEAN] /\ entered'[p]
          /\ \A q \in Pids : q # p => entered'[q] = entered[q]
      BY <2>1, Zenon
    <2>3. pname' \in [Pids -> BOOLEAN] /\ pname'[p] = name
          /\ \A q \in Pids : q # p => pname'[q] = pname[q]
      BY <2>1, Zenon
    <2>4. pname_event' \in [Pids -> Threads \cup {NoPid}] /\ pname_event'[p] = t
          /\ \A q \in Pids : q # p => pname_event'[q] = pname_event[q]
      BY <2>1
    <2>5. behind[p] = <<>>
      BY <1>2 DEF Inside
    <2> QED
      BY <1>2, <2>1, <2>2, <2>3, <2>4, <2>5
  <1> QED
    BY <1>1, <1>2

LEMMA SetAt ==
  \A D : \A f \in [D -> BOOLEAN] : \A d \in D :
    LET g == [f EXCEPT ![d] = TRUE] IN
    /\ g \in [D -> BOOLEAN]
    /\ \A e \in D : e # d => g[e] = f[e]
    /\ \A e \in D : f[e] => g[e]
  <1> SUFFICES ASSUME NEW D, NEW f \in [D -> BOOLEAN], NEW d \in D
               PROVE  LET g == [f EXCEPT ![d] = TRUE] IN
                      /\ g \in [D -> BOOLEAN]
                      /\ \A e \in D : e # d => g[e] = f[e]
                      /\ \A e \in D : f[e] => g[e]
    OBVIOUS
  <1> DEFINE g == [f EXCEPT ![d] = TRUE]
  <1>1. g \in [D -> BOOLEAN]
    OBVIOUS
  <1>2. \A e \in D : e # d => g[e] = f[e]
    BY Zenon
  <1>3. \A e \in D : f[e] => g[e]
    OBVIOUS
  <1> QED
    BY <1>1, <1>2, <1>3

LEMMA ControlStep ==
  ASSUME LogInv, [Queue!Next]_(Queue!logVars)
  PROVE  Control'
  <1>1. RingTypes /\ LogTypes /\ Settled /\ Queue!ReaderWoken /\ Inside /\ FirstTime
    BY DEF LogInv
  <1>2. NoPid \notin Pids \cup Threads /\ MaxAsked \in Nat
    BY PartsAssumption DEF Queue!TdiLogAssumption
  <1>3. /\ UNCHANGED Queue!queue => HeardOf' = HeardOf /\ Queue!Count' = Queue!Count
        /\ Queue!Count \in Nat
    BY <1>1, HeardStep
  <1> USE <1>1, <1>2, <1>3
      DEF Queue!names, Queue!threads, Queue!user, Queue!Goto, Control, LogTypes, Settled,
          Queue!ReaderWoken, Inside, Queue!EventOnStack, FirstTime, FirstTimeOf, Unheard
  <1>4. CASE UNCHANGED Queue!logVars
    BY <1>4 DEF Queue!logVars
  <1>5. ASSUME NEW t \in Threads, NEW p \in Pids, Queue!CreateResolves(t, p) PROVE Control'
    <2>11. LogTypes'
      BY <1>5 DEF Queue!CreateResolves
    <2>12. Settled'
      BY <1>5 DEF Queue!CreateResolves
    <2>13. Queue!ReaderWoken'
      BY <1>5 DEF Queue!CreateResolves
    <2>14. Inside'
      BY <1>5 DEF Queue!CreateResolves
    <2>15. FirstTime'
      BY <1>5 DEF Queue!CreateResolves
    <2> QED
      BY <2>11, <2>12, <2>13, <2>14, <2>15
  <1>6. ASSUME NEW t \in Threads, Queue!CreateSetsEvent(t) PROVE Control'
    <2>1. /\ pid[t] \in Pids /\ at[t] = "set"
          /\ IF entered[pid[t]] THEN /\ at' = [at EXCEPT ![t] = "log"]
                                     /\ pname_event' = [pname_event EXCEPT ![pid[t]] = t]
                                ELSE at' = [at EXCEPT ![t] = "add"] /\ pname_event' = pname_event
      BY <1>6 DEF Queue!CreateSetsEvent
    <2>2. /\ at' \in [Threads -> {"idle", "set", "add", "log", "signal", "wait", "reset"}]
          /\ pname_event' \in [Pids -> Threads \cup {NoPid}]
      <3>1. CASE entered[pid[t]]
        <4>1. at' = [at EXCEPT ![t] = "log"] /\ pname_event' = [pname_event EXCEPT ![pid[t]] = t]
          BY <2>1, <3>1
        <4> QED
          BY <4>1
      <3>2. CASE ~entered[pid[t]]
        <4>1. at' = [at EXCEPT ![t] = "add"] /\ pname_event' = pname_event
          BY <2>1, <3>2
        <4> QED
          BY <4>1
      <3> QED
        BY <3>1, <3>2
    <2>3. UNCHANGED <<alive, entered, pname, behind, doubled, pid, woken, asked, answers, naming>>
          /\ HeardOf' = HeardOf
      BY <1>6 DEF Queue!CreateSetsEvent
    <2>11. LogTypes'
      BY <1>6, <2>2 DEF Queue!CreateSetsEvent
    <2>12. Settled'
      BY <1>6 DEF Queue!CreateSetsEvent
    <2>13. Queue!ReaderWoken'
      BY <1>6 DEF Queue!CreateSetsEvent
    <2>20. /\ \A u \in Threads : at'[u] # "idle" => pid'[u] \in Pids /\ alive'[pid'[u]]
          /\ \A u \in Threads : at'[u] = "idle" => pid'[u] = NoPid
      BY <1>6, <2>1 DEF Queue!CreateSetsEvent
    <2>21. \A q \in Pids : /\ ~entered'[q] => pname_event'[q] = NoPid /\ ~pname'[q] /\ behind'[q] = <<>>
                           /\ ~doubled'[q] => behind'[q] = <<>>
      BY <1>6, <2>1 DEF Queue!CreateSetsEvent
    <2>22. Queue!EventOnStack'
      <3>1. CASE entered[pid[t]]
        <4>1. at' = [at EXCEPT ![t] = "log"] /\ pname_event' = [pname_event EXCEPT ![pid[t]] = t]
          BY <2>1, <3>1
        <4> QED
          BY <2>1, <2>3, <4>1
      <3>2. CASE ~entered[pid[t]]
        <4>1. at' = [at EXCEPT ![t] = "add"] /\ pname_event' = pname_event
          BY <2>1, <3>2
        <4> QED
          BY <2>1, <2>3, <4>1
      <3> QED
        BY <3>1, <3>2
    <2>14. Inside'
      BY <2>20, <2>21, <2>22
    <2>15. FirstTime'
      <3>2. CASE entered[pid[t]]
        BY <2>1, <2>3, <3>2
      <3>3. CASE ~entered[pid[t]]
        BY <2>1, <2>3, <3>3
      <3> QED
        BY <3>2, <3>3
    <2> QED
      BY <2>11, <2>12, <2>13, <2>14, <2>15
  <1>7. ASSUME NEW t \in Threads, Queue!CreateAddsEntry(t) PROVE Control'
    <2>1. pid[t] \in Pids /\ Queue!add_ple(pid[t], FALSE, t)
      BY <1>7 DEF Queue!CreateAddsEntry
    <2>2. Added(pid[t], FALSE, t)
      BY <2>1, AddEntry
    <2>11. LogTypes'
      BY <1>7, <2>1, <2>2 DEF Queue!CreateAddsEntry, Added
    <2>12. Settled'
      BY <1>7, <2>1, <2>2 DEF Queue!CreateAddsEntry, Added
    <2>13. Queue!ReaderWoken'
      BY <1>7, <2>1, <2>2 DEF Queue!CreateAddsEntry, Added
    <2>20. /\ \A u \in Threads : at'[u] # "idle" => pid'[u] \in Pids /\ alive'[pid'[u]]
          /\ \A u \in Threads : at'[u] = "idle" => pid'[u] = NoPid
      BY <1>7, <2>1, <2>2 DEF Queue!CreateAddsEntry, Added
    <2>21. \A q \in Pids : /\ ~entered'[q] => pname_event'[q] = NoPid /\ ~pname'[q] /\ behind'[q] = <<>>
                           /\ ~doubled'[q] => behind'[q] = <<>>
      <3> SUFFICES ASSUME NEW q \in Pids
                   PROVE  /\ ~entered'[q] => pname_event'[q] = NoPid /\ ~pname'[q] /\ behind'[q] = <<>>
                          /\ ~doubled'[q] => behind'[q] = <<>>
        OBVIOUS
      <3>1. /\ ~entered[q] => pname_event[q] = NoPid /\ ~pname[q] /\ behind[q] = <<>>
            /\ ~doubled[q] => behind[q] = <<>>
        OBVIOUS
      <3>2. CASE q = pid[t]
        BY <2>1, <2>2, <3>1, <3>2 DEF Added
      <3>3. CASE q # pid[t]
        BY <2>1, <2>2, <3>1, <3>3 DEF Added
      <3> QED
        BY <3>2, <3>3
    <2>22. Queue!EventOnStack'
      BY <1>7, <2>1, <2>2 DEF Queue!CreateAddsEntry, Added
    <2>14. Inside'
      BY <2>20, <2>21, <2>22
    <2>15. FirstTime'
      BY <1>7, <2>1, <2>2 DEF Queue!CreateAddsEntry, Added
    <2> QED
      BY <2>11, <2>12, <2>13, <2>14, <2>15
  <1>8. ASSUME NEW t \in Threads, Queue!CreateLogs(t) PROVE Control'
    <2>1. HeardOf' \subseteq HeardOf \cup {pid[t]}
      BY <1>8, HeardStep DEF Queue!CreateLogs
    <2>2. at' = [at EXCEPT ![t] = "signal"] \/ at' = [at EXCEPT ![t] = "reset"]
      BY <1>8 DEF Queue!CreateLogs
    <2>3. at' \in [Threads -> {"idle", "set", "add", "log", "signal", "wait", "reset"}]
      <3>1. CASE at' = [at EXCEPT ![t] = "signal"]
        BY <3>1
      <3>2. CASE at' = [at EXCEPT ![t] = "reset"]
        BY <3>2
      <3> QED
        BY <2>2, <3>1, <3>2
    <2>4. UNCHANGED <<pname_event, doubled, pid>> /\ at[t] = "log"
      BY <1>8 DEF Queue!CreateLogs
    <2>11. LogTypes'
      BY <1>8, <2>3 DEF Queue!CreateLogs
    <2>12. Settled'
      BY <1>8, <2>1 DEF Queue!CreateLogs
    <2>13. Queue!ReaderWoken'
      BY <1>8, <2>1 DEF Queue!CreateLogs
    <2>20. /\ \A u \in Threads : at'[u] # "idle" => pid'[u] \in Pids /\ alive'[pid'[u]]
          /\ \A u \in Threads : at'[u] = "idle" => pid'[u] = NoPid
      BY <1>8, <2>1 DEF Queue!CreateLogs
    <2>21. \A q \in Pids : /\ ~entered'[q] => pname_event'[q] = NoPid /\ ~pname'[q] /\ behind'[q] = <<>>
                           /\ ~doubled'[q] => behind'[q] = <<>>
      BY <1>8, <2>1 DEF Queue!CreateLogs
    <2>22. Queue!EventOnStack'
      <3>1. CASE at' = [at EXCEPT ![t] = "signal"]
        BY <2>4, <3>1
      <3>2. CASE at' = [at EXCEPT ![t] = "reset"]
        BY <2>4, <3>2
      <3> QED
        BY <2>2, <3>1, <3>2
    <2>14. Inside'
      BY <2>20, <2>21, <2>22
    <2>15. FirstTime'
      BY <1>8, <2>1 DEF Queue!CreateLogs
    <2> QED
      BY <2>11, <2>12, <2>13, <2>14, <2>15
  <1>9. ASSUME NEW t \in Threads, Queue!CreateSignals(t) PROVE Control'
    <2>11. LogTypes'
      BY <1>9 DEF Queue!CreateSignals, Queue!KeSetEvent
    <2>12. Settled'
      BY <1>9 DEF Queue!CreateSignals, Queue!KeSetEvent
    <2>13. Queue!ReaderWoken'
      BY <1>9 DEF Queue!CreateSignals, Queue!KeSetEvent
    <2>14. Inside'
      BY <1>9 DEF Queue!CreateSignals, Queue!KeSetEvent
    <2>15. FirstTime'
      BY <1>9 DEF Queue!CreateSignals, Queue!KeSetEvent
    <2> QED
      BY <2>11, <2>12, <2>13, <2>14, <2>15
  <1>10. ASSUME NEW t \in Threads, Queue!CreateWaits(t) PROVE Control'
    <2>11. LogTypes'
      BY <1>10 DEF Queue!CreateWaits
    <2>12. Settled'
      BY <1>10 DEF Queue!CreateWaits
    <2>13. Queue!ReaderWoken'
      BY <1>10 DEF Queue!CreateWaits
    <2>14. Inside'
      BY <1>10 DEF Queue!CreateWaits
    <2>15. FirstTime'
      BY <1>10 DEF Queue!CreateWaits
    <2> QED
      BY <2>11, <2>12, <2>13, <2>14, <2>15
  <1>11. ASSUME NEW t \in Threads, Queue!CreateResets(t) PROVE Control'
    <2>11. LogTypes'
      BY <1>11 DEF Queue!CreateResets
    <2>12. Settled'
      BY <1>11 DEF Queue!CreateResets
    <2>13. Queue!ReaderWoken'
      BY <1>11 DEF Queue!CreateResets
    <2>14. Inside'
      BY <1>11 DEF Queue!CreateResets
    <2>15. FirstTime'
      BY <1>11 DEF Queue!CreateResets
    <2> QED
      BY <2>11, <2>12, <2>13, <2>14, <2>15
  <1>12. ASSUME NEW p \in Pids, Queue!ProcessCreated(p) PROVE Control'
    <2>1. Queue!add_ple(p, FALSE, NoPid)
      BY <1>12 DEF Queue!ProcessCreated
    <2>2. Added(p, FALSE, NoPid)
      BY <2>1, AddEntry
    <2>11. LogTypes'
      BY <1>12, <2>2 DEF Queue!ProcessCreated, Added
    <2>12. Settled'
      BY <1>12, <2>2 DEF Queue!ProcessCreated, Added
    <2>13. Queue!ReaderWoken'
      BY <1>12, <2>2 DEF Queue!ProcessCreated, Added
    <2>20. /\ \A u \in Threads : at'[u] # "idle" => pid'[u] \in Pids /\ alive'[pid'[u]]
          /\ \A u \in Threads : at'[u] = "idle" => pid'[u] = NoPid
      BY <1>12, <2>1, <2>2 DEF Queue!ProcessCreated, Added
    <2>21. \A q \in Pids : /\ ~entered'[q] => pname_event'[q] = NoPid /\ ~pname'[q] /\ behind'[q] = <<>>
                           /\ ~doubled'[q] => behind'[q] = <<>>
      BY <1>12, <2>1, <2>2 DEF Queue!ProcessCreated, Added
    <2>22. Queue!EventOnStack'
      BY <1>12, <2>1, <2>2 DEF Queue!ProcessCreated, Added
    <2>14. Inside'
      BY <2>20, <2>21, <2>22
    <2>15. FirstTime'
      BY <1>12, <2>2 DEF Queue!ProcessCreated, Added
    <2> QED
      BY <2>11, <2>12, <2>13, <2>14, <2>15
  <1>13. ASSUME NEW p \in Pids, Queue!ProcessEnds(p) PROVE Control'
    <2> DEFINE last == behind[p] = <<>>
    <2>1. ~last => Head(behind[p]) \in Behinds /\ Tail(behind[p]) \in Seq(Behinds)
      OBVIOUS
    <2>2. ~last => Head(behind[p]).pname \in BOOLEAN /\ Head(behind[p]).event \in Threads \cup {NoPid}
      BY <2>1 DEF Behinds
    <2>3. /\ pname_event' = [pname_event EXCEPT ![p] = IF last THEN NoPid ELSE Head(behind[p]).event]
          /\ behind' = [behind EXCEPT ![p] = IF last THEN <<>> ELSE Tail(behind[p])]
      BY <1>13 DEF Queue!ProcessEnds
    <2>4. pname_event' \in [Pids -> Threads \cup {NoPid}] /\ behind' \in [Pids -> Seq(Behinds)]
      BY <2>1, <2>2, <2>3
    <2>5. \E e, d, a, n \in BOOLEAN :
            /\ alive' = [alive EXCEPT ![p] = a] /\ entered' = [entered EXCEPT ![p] = e]
            /\ doubled' = [doubled EXCEPT ![p] = d] /\ pname' = [pname EXCEPT ![p] = n]
      <3>1. (IF last THEN FALSE ELSE Head(behind[p]).pname) \in BOOLEAN
        BY <2>2
      <3>2. (~last) \in BOOLEAN /\ FALSE \in BOOLEAN
        OBVIOUS
      <3> HIDE DEF last
      <3>3. /\ alive' = [alive EXCEPT ![p] = FALSE] /\ entered' = [entered EXCEPT ![p] = ~last]
            /\ doubled' = [doubled EXCEPT ![p] = ~last]
            /\ pname' = [pname EXCEPT ![p] = IF last THEN FALSE ELSE Head(behind[p]).pname]
        BY <1>13 DEF Queue!ProcessEnds, last
      <3> QED
        BY <3>1, <3>2, <3>3, Zenon
    <2>6. /\ alive' \in [Pids -> BOOLEAN] /\ entered' \in [Pids -> BOOLEAN]
          /\ doubled' \in [Pids -> BOOLEAN] /\ pname' \in [Pids -> BOOLEAN]
      <3>1. PICK e, d, a, n \in BOOLEAN :
              /\ alive' = [alive EXCEPT ![p] = a] /\ entered' = [entered EXCEPT ![p] = e]
              /\ doubled' = [doubled EXCEPT ![p] = d] /\ pname' = [pname EXCEPT ![p] = n]
        BY <2>5, Zenon
      <3>2. alive' \in [Pids -> BOOLEAN]
        BY <3>1
      <3>3. entered' \in [Pids -> BOOLEAN]
        BY <3>1
      <3>4. doubled' \in [Pids -> BOOLEAN]
        BY <3>1
      <3>5. pname' \in [Pids -> BOOLEAN]
        BY <3>1
      <3> QED
        BY <3>2, <3>3, <3>4, <3>5
    <2> HIDE DEF last
    <2>11. LogTypes'
      BY <1>13, <2>4, <2>6 DEF Queue!ProcessEnds
    <2>12. Settled'
      BY <1>13 DEF Queue!ProcessEnds
    <2>13. Queue!ReaderWoken'
      BY <1>13 DEF Queue!ProcessEnds
    <2>14. Inside'
      BY <1>13 DEF Queue!ProcessEnds
    <2>15. FirstTime'
      BY <1>13 DEF Queue!ProcessEnds
    <2> QED
      BY <2>11, <2>12, <2>13, <2>14, <2>15
  <1>14. CASE Queue!Log
    <2>1. HeardOf' \subseteq HeardOf \cup {NoPid}
      BY <1>14, HeardStep DEF Queue!Log
    <2>11. LogTypes'
      BY <1>14, <2>1 DEF Queue!Log
    <2>12. Settled'
      BY <1>14, <2>1 DEF Queue!Log
    <2>13. Queue!ReaderWoken'
      BY <1>14, <2>1 DEF Queue!Log
    <2>14. Inside'
      BY <1>14, <2>1 DEF Queue!Log
    <2>15. FirstTime'
      BY <1>14, <2>1 DEF Queue!Log
    <2> QED
      BY <2>11, <2>12, <2>13, <2>14, <2>15
  <1>15. CASE Queue!Signal
    <2>11. LogTypes'
      BY <1>15 DEF Queue!Signal, Queue!KeSetEvent, Queue!queue
    <2>12. Settled'
      BY <1>15 DEF Queue!Signal, Queue!KeSetEvent, Queue!queue
    <2>13. Queue!ReaderWoken'
      BY <1>15 DEF Queue!Signal, Queue!KeSetEvent, Queue!queue
    <2>14. Inside'
      BY <1>15 DEF Queue!Signal, Queue!KeSetEvent, Queue!queue
    <2>15. FirstTime'
      BY <1>15 DEF Queue!Signal, Queue!KeSetEvent, Queue!queue
    <2> QED
      BY <2>11, <2>12, <2>13, <2>14, <2>15
  <1>16. CASE Queue!ProgramOpens
    <2>11. LogTypes'
      BY <1>16 DEF Queue!ProgramOpens
    <2>12. Settled'
      BY <1>16 DEF Queue!ProgramOpens
    <2>13. Queue!ReaderWoken'
      BY <1>16 DEF Queue!ProgramOpens
    <2>14. Inside'
      BY <1>16 DEF Queue!ProgramOpens
    <2>15. FirstTime'
      BY <1>16 DEF Queue!ProgramOpens
    <2> QED
      BY <2>11, <2>12, <2>13, <2>14, <2>15
  <1>17. CASE Queue!ProgramCloses
    <2>11. LogTypes'
      BY <1>17 DEF Queue!ProgramCloses
    <2>12. Settled'
      BY <1>17 DEF Queue!ProgramCloses
    <2>13. Queue!ReaderWoken'
      BY <1>17 DEF Queue!ProgramCloses
    <2>14. Inside'
      BY <1>17 DEF Queue!ProgramCloses
    <2>15. FirstTime'
      BY <1>17 DEF Queue!ProgramCloses
    <2> QED
      BY <2>11, <2>12, <2>13, <2>14, <2>15
  <1>18. CASE Queue!ProgramClosed
    <2>11. LogTypes'
      BY <1>18 DEF Queue!ProgramClosed
    <2>12. Settled'
      BY <1>18 DEF Queue!ProgramClosed
    <2>13. Queue!ReaderWoken'
      BY <1>18 DEF Queue!ProgramClosed
    <2>14. Inside'
      BY <1>18 DEF Queue!ProgramClosed
    <2>15. FirstTime'
      BY <1>18 DEF Queue!ProgramClosed
    <2> QED
      BY <2>11, <2>12, <2>13, <2>14, <2>15
  <1>19. CASE Queue!ProgramWakes
    <2>11. LogTypes'
      BY <1>19 DEF Queue!ProgramWakes
    <2>12. Settled'
      BY <1>19 DEF Queue!ProgramWakes
    <2>13. Queue!ReaderWoken'
      BY <1>19 DEF Queue!ProgramWakes
    <2>14. Inside'
      BY <1>19 DEF Queue!ProgramWakes
    <2>15. FirstTime'
      BY <1>19 DEF Queue!ProgramWakes
    <2> QED
      BY <2>11, <2>12, <2>13, <2>14, <2>15
  <1>20. CASE Queue!ProgramReads
    <2>1. PICK room \in 1 .. MaxRead :
             /\ Queue!get_request(IF Queue!Count < room THEN Queue!Count ELSE room)
             /\ program' = IF Queue!Count < room THEN "waiting" ELSE "reading"
      BY <1>20 DEF Queue!ProgramReads
    <2>2. /\ HeardOf' \subseteq HeardOf
          /\ answers' \subseteq answers \cup (HeardOf \ {NoPid})
          /\ Queue!Count' = Queue!Count - IF Queue!Count < room THEN Queue!Count ELSE room
      BY <2>1, HeardStep
    <2>3. HeardOf \subseteq Pids \cup {NoPid}
      BY QueuedIs, QueuedAre DEF HeardOf, RingTypes
    <2>4. program' = "waiting" => Queue!Count' = 0
      BY <2>1, <2>2
    <2>11. LogTypes'
      BY <1>20, <2>1, <2>2, <2>3, <2>4 DEF Queue!ProgramReads
    <2>12. Settled'
      BY <1>20, <2>1, <2>2, <2>3, <2>4 DEF Queue!ProgramReads
    <2>13. Queue!ReaderWoken'
      BY <1>20, <2>1, <2>2, <2>3, <2>4 DEF Queue!ProgramReads
    <2>14. Inside'
      BY <1>20, <2>1, <2>2, <2>3, <2>4 DEF Queue!ProgramReads
    <2>15. FirstTime'
      BY <1>20, <2>1, <2>2, <2>3, <2>4 DEF Queue!ProgramReads
    <2> QED
      BY <2>11, <2>12, <2>13, <2>14, <2>15
  <1>21. ASSUME NEW p \in Pids, Queue!ProgramAnswers(p) PROVE Control'
    <2>1. IF entered[p]
          THEN /\ pname' = [pname EXCEPT ![p] = TRUE] /\ naming' = naming
               /\ woken' = IF ~pname[p] /\ pname_event[p] # NoPid
                           THEN [woken EXCEPT ![pname_event[p]] = TRUE] ELSE woken
          ELSE naming' = p /\ pname' = pname /\ woken' = woken
      BY <1>21 DEF Queue!ProgramAnswers, Queue!pid_pname_set
    <2>2. pname' \in [Pids -> BOOLEAN] /\ naming' \in Pids \cup {NoPid}
          /\ \A q \in Pids : q # p => pname'[q] = pname[q]
      <3>1. pname' = [pname EXCEPT ![p] = TRUE] \/ pname' = pname
        BY <2>1
      <3>2. CASE pname' = [pname EXCEPT ![p] = TRUE]
        <4>1. /\ pname' \in [Pids -> BOOLEAN]
              /\ \A q \in Pids : q # p => pname'[q] = pname[q]
          BY <3>2, SetAt
        <4> QED
          BY <2>1, <4>1
      <3>3. CASE pname' = pname
        BY <2>1, <3>3
      <3>4. naming' \in Pids \cup {NoPid}
        BY <2>1
      <3> QED
        BY <3>1, <3>2, <3>3, <3>4
    <2>3. woken' \in [Threads -> BOOLEAN]
          /\ \A u \in Threads : woken[u] => woken'[u]
      <3>1. pname_event[p] # NoPid => pname_event[p] \in Threads
        OBVIOUS
      <3>2. woken' = woken
            \/ (pname_event[p] \in Threads /\ woken' = [woken EXCEPT ![pname_event[p]] = TRUE])
        <4>1. CASE entered[p] /\ ~pname[p] /\ pname_event[p] # NoPid
          BY <2>1, <3>1, <4>1
        <4>2. CASE ~(entered[p] /\ ~pname[p] /\ pname_event[p] # NoPid)
          BY <2>1, <4>2
        <4> QED
          BY <4>1, <4>2
      <3>3. CASE woken' = woken
        BY <3>3
      <3>4. CASE pname_event[p] \in Threads /\ woken' = [woken EXCEPT ![pname_event[p]] = TRUE]
        BY <3>4, SetAt
      <3> QED
        BY <3>2, <3>3, <3>4
    <2>4. /\ answers' = answers \ {p} /\ p \in answers /\ naming = NoPid
          /\ UNCHANGED <<event, unsignalled, alive, entered, pname_event, behind, doubled,
                         pid, at, asked, program, g_got_log, freed>>
          /\ program \in {"reading", "waiting"} /\ HeardOf' = HeardOf
      BY <1>21 DEF Queue!ProgramAnswers
    <2>11. LogTypes'
      BY <2>2, <2>3, <2>4
    <2>12. Settled'
      BY <1>21 DEF Queue!ProgramAnswers, Queue!pid_pname_set
    <2>13. Queue!ReaderWoken'
      BY <1>21 DEF Queue!ProgramAnswers, Queue!pid_pname_set
    <2>20. /\ \A u \in Threads : at'[u] # "idle" => pid'[u] \in Pids /\ alive'[pid'[u]]
          /\ \A u \in Threads : at'[u] = "idle" => pid'[u] = NoPid
      BY <2>4
    <2>21. \A q \in Pids : /\ ~entered'[q] => pname_event'[q] = NoPid /\ ~pname'[q] /\ behind'[q] = <<>>
                           /\ ~doubled'[q] => behind'[q] = <<>>
      <3> SUFFICES ASSUME NEW q \in Pids
                   PROVE  /\ ~entered'[q] => pname_event'[q] = NoPid /\ ~pname'[q] /\ behind'[q] = <<>>
                          /\ ~doubled'[q] => behind'[q] = <<>>
        OBVIOUS
      <3>1. /\ ~entered[q] => pname_event[q] = NoPid /\ ~pname[q] /\ behind[q] = <<>>
            /\ ~doubled[q] => behind[q] = <<>>
        OBVIOUS
      <3>2. ~entered[q] => ~pname'[q]
        BY <2>1, <2>2, <3>1
      <3> QED
        BY <2>4, <3>1, <3>2
    <2>22. Queue!EventOnStack'
      BY <1>21 DEF Queue!ProgramAnswers, Queue!pid_pname_set
    <2>14. Inside'
      BY <2>20, <2>21, <2>22
    <2>15. FirstTime'
      <3>1. asked[p] # 0 /\ \A u \in Threads : asked[p] = 1 /\ pid[u] = p =>
                             at[u] \notin {"set", "add", "log"} /\ entered[p] /\ pname_event[p] = u
        BY <2>4
      <3>2. ASSUME NEW q \in Pids, q # p PROVE FirstTimeOf(q)'
        <4>1. FirstTimeOf(q)
          OBVIOUS
        <4> QED
          BY <2>1, <2>2, <2>3, <2>4, <3>2, <4>1
      <3>3. FirstTimeOf(p)'
        <4>1. asked'[p] # 0
          BY <2>4, <3>1
        <4>2. ASSUME NEW u \in Threads, asked[p] = 1, pid[u] = p
              PROVE  naming' # p /\ woken'[u]
          <5>1. entered[p] /\ pname_event[p] = u /\ (pname[p] => woken[u])
            BY <3>1, <4>2
          <5> QED
            BY <2>1, <2>3, <2>4, <5>1
        <4> QED
          BY <2>4, <3>1, <4>1, <4>2
      <3> QED
        BY <3>2, <3>3
    <2> QED
      BY <2>11, <2>12, <2>13, <2>14, <2>15
  <1>22. CASE Queue!ProgramAdds
    <2>1. naming \in Pids /\ Queue!add_ple(naming, TRUE, NoPid)
      BY <1>22 DEF Queue!ProgramAdds
    <2>2. Added(naming, TRUE, NoPid)
      BY <2>1, AddEntry
    <2>11. LogTypes'
      BY <1>22, <2>1, <2>2 DEF Queue!ProgramAdds, Added
    <2>12. Settled'
      BY <1>22, <2>1, <2>2 DEF Queue!ProgramAdds, Added
    <2>13. Queue!ReaderWoken'
      BY <1>22, <2>1, <2>2 DEF Queue!ProgramAdds, Added
    <2>20. /\ \A u \in Threads : at'[u] # "idle" => pid'[u] \in Pids /\ alive'[pid'[u]]
          /\ \A u \in Threads : at'[u] = "idle" => pid'[u] = NoPid
      BY <1>22, <2>1, <2>2 DEF Queue!ProgramAdds, Added
    <2>21. \A q \in Pids : /\ ~entered'[q] => pname_event'[q] = NoPid /\ ~pname'[q] /\ behind'[q] = <<>>
                           /\ ~doubled'[q] => behind'[q] = <<>>
      BY <1>22, <2>1, <2>2 DEF Queue!ProgramAdds, Added
    <2>22. Queue!EventOnStack'
      BY <1>22, <2>1, <2>2 DEF Queue!ProgramAdds, Added
    <2>14. Inside'
      BY <2>20, <2>21, <2>22
    <2>15. FirstTime'
      BY <1>22, <2>1, <2>2 DEF Queue!ProgramAdds, Added
    <2> QED
      BY <2>11, <2>12, <2>13, <2>14, <2>15
  <1>23. CASE Queue!filter_free
    <2>1. HeardOf' = HeardOf
      BY <1>23 DEF Queue!filter_free, HeardOf, Queue!Queued, Queue!Count, Queue!After
    <2>11. LogTypes'
      BY <1>23, <2>1 DEF Queue!filter_free
    <2>12. Settled'
      BY <1>23, <2>1 DEF Queue!filter_free
    <2>13. Queue!ReaderWoken'
      BY <1>23, <2>1 DEF Queue!filter_free
    <2>14. Inside'
      BY <1>23, <2>1 DEF Queue!filter_free
    <2>15. FirstTime'
      BY <1>23, <2>1 DEF Queue!filter_free
    <2> QED
      BY <2>11, <2>12, <2>13, <2>14, <2>15
  <1> QED
    BY <1>4, <1>5, <1>6, <1>7, <1>8, <1>9, <1>10, <1>11, <1>12, <1>13, <1>14, <1>15, <1>16, <1>17, <1>18, <1>19, <1>20, <1>21, <1>22, <1>23
       DEF Queue!Next, Queue!tdi_create, Queue!Program

LEMMA LogInit == Queue!Init => LogInv
  <1> SUFFICES ASSUME Queue!Init PROVE LogInv
    OBVIOUS
  <1>1. RingTypes
    <2>1. 0 \in Queue!Slots /\ 0 \in 0 .. MaxLogs
      BY PartsAssumption, SizeIs DEF Queue!Slots, Queue!TdiLogAssumption
    <2>2. [pid |-> NoPid, skipped |-> 0, block |-> 0]
            \in [pid : Pids \cup {NoPid}, skipped : Nat, block : Nat]
      OBVIOUS
    <2> QED
      BY <2>1, <2>2 DEF RingTypes, Queue!Init
  <1>2. Queue!Count = 0 /\ Queue!Queued = {}
    <2>1. head = 0 /\ tail = 0 /\ head \in Queue!Slots
      BY <1>1 DEF Queue!Init, RingTypes
    <2>2. Between(head, tail) = 0
      BY <2>1, CountIs DEF Between
    <2>3. Stretch(tail, 0) = {}
      BY DEF Stretch
    <2> QED
      BY <2>2, <2>3, QueuedAre
  <1>3. Lost(Queue!Queued) = {}
    BY <1>2 DEF Lost
  <1>4. Reported
    <2>1. IsFiniteSet({}) /\ Cardinality({}) = 0
      BY FS_EmptySet
    <2>2. dropped = 0 /\ told = 0 /\ logged = 0
      BY DEF Queue!Init
    <2> QED
      BY <1>3, <2>1, <2>2 DEF Reported, Queue!Init
  <1>5. Blocks
    BY <1>2 DEF Blocks, Dangling, Queue!Init
  <1>6. LogTypes /\ Settled /\ Inside
    <2>1. 0 \in 0 .. MaxAsked
      BY PartsAssumption DEF Queue!TdiLogAssumption
    <2>2. LogTypes
      <3>1. <<>> \in Seq(Behinds)
        OBVIOUS
      <3>2. behind \in [Pids -> Seq(Behinds)]
        BY <3>1 DEF Queue!Init
      <3>3. /\ alive \in [Pids -> BOOLEAN] /\ entered \in [Pids -> BOOLEAN]
            /\ pname \in [Pids -> BOOLEAN] /\ doubled \in [Pids -> BOOLEAN]
        BY DEF Queue!Init
      <3> QED
        BY <2>1, <3>2, <3>3 DEF Queue!Init, LogTypes
    <2>3. Settled /\ Inside
      BY DEF Queue!Init, Settled, Inside, Queue!EventOnStack
    <2> QED
      BY <2>2, <2>3
  <1>7. Queue!ReaderWoken /\ FirstTime
    <2>1. HeardOf = {} /\ NoPid \notin Pids
      BY <1>2, PartsAssumption DEF HeardOf, Queue!TdiLogAssumption
    <2> QED
      BY <1>2, <2>1 DEF Queue!Init, Queue!ReaderWoken, FirstTime, FirstTimeOf, Unheard
  <1> QED
    BY <1>1, <1>4, <1>5, <1>6, <1>7 DEF LogInv

LEMMA LogStep == LogInv /\ [Queue!Next]_(Queue!logVars) => LogInv'
  BY RingStep, ControlStep DEF LogInv, Control

-----------------------------------------------------------------------------
(* What it says.                                                           *)

LEMMA SkippedIs == LogInv => Queue!SkippedExact
  <1>1. Queue!Skipped(Queue!Queued) = Cardinality(Lost(Queue!Queued))
    BY CountSame DEF Queue!Skipped, Lost
  <1> QED
    BY <1>1 DEF LogInv, Reported, Queue!SkippedExact

\* The requests dropped are the ones reported and the ones that will be, however
\* often the queue overflowed (filter.c:333).
THEOREM SkippedAlwaysExact == Queue!Spec => []SkippedExact
  BY LogInit, LogStep, SkippedIs, PTL DEF Queue!Spec, SkippedExact

\* As many blocks as entries.
LEMMA HeapCount == ASSUME RingTypes, Blocks, ~freed PROVE Cardinality(heap) = Queue!Count
  <1> DEFINE f == [i \in Queue!Queued |-> qData[i].block]
  <1>1. /\ heap = {qData[i].block : i \in Queue!Queued}
        /\ \A i \in Queue!Queued : qData[i].block # 0
        /\ \A i, j \in Queue!Slots : qData[i].block = qData[j].block /\ i # j => qData[i].block = 0
    BY DEF Blocks
  <1>2. head \in Queue!Slots /\ tail \in Queue!Slots
    BY DEF RingTypes
  <1>3. Queue!Queued \subseteq Queue!Slots /\ IsFiniteSet(Queue!Queued)
        /\ Cardinality(Queue!Queued) = Queue!Count
    BY <1>2, QueuedIs, QueuedAre, StretchCount
  <1>4. f \in [Queue!Queued -> heap] /\ \A h \in heap : \E i \in Queue!Queued : f[i] = h
    BY <1>1
  <1>5. \A i, j \in Queue!Queued : f[i] = f[j] => i = j
    BY <1>1, <1>3
  <1> HIDE DEF f
  <1>6. f \in Injection(Queue!Queued, heap) /\ f \in Surjection(Queue!Queued, heap)
    BY <1>4, <1>5 DEF Injection, Surjection, IsInjective
  <1>7. ExistsBijection(Queue!Queued, heap)
    BY <1>6, Zenon DEF Bijection, ExistsBijection
  <1> QED
    BY <1>3, <1>7, FS_Bijection

LEMMA RingIs == LogInv => RingOwned
  <1> SUFFICES ASSUME LogInv PROVE Queue!TypeOK /\ Queue!BlocksOwned
    BY DEF RingOwned, Queue!RingOwned
  <1> USE DEF LogInv
  <1>1. logged \in Nat /\ logged <= MaxLogs /\ dropped <= logged /\ MaxLogs \in Nat
        /\ dropped \in Nat /\ told \in Nat
    BY PartsAssumption DEF RingTypes, Reported, Queue!TdiLogAssumption
  <1>2. told <= dropped
    <2>1. Cardinality(Lost(Queue!Queued)) \in Nat
          /\ dropped = told + Cardinality(Lost(Queue!Queued))
      BY FS_CardinalityType DEF Reported
    <2> QED
      BY <1>1, <2>1
  <1>3. qData \in [Queue!Slots -> [pid : Pids \cup {NoPid}, skipped : 0 .. MaxLogs,
                                   block : 0 .. MaxLogs]]
    <2>1. ASSUME NEW i \in Queue!Slots
          PROVE  qData[i] \in [pid : Pids \cup {NoPid}, skipped : 0 .. MaxLogs, block : 0 .. MaxLogs]
      <3>1. qData[i] \in [pid : Pids \cup {NoPid}, skipped : Nat, block : Nat]
        BY DEF RingTypes
      <3>2. qData[i].skipped <= dropped /\ qData[i].block <= logged
        BY DEF Reported, Blocks
      <3> QED
        BY <1>1, <3>1, <3>2
    <2> QED
      BY <2>1 DEF RingTypes
  <1>4. Queue!TypeOK
    <2>1. heap \subseteq 1 .. MaxLogs /\ twice \subseteq 1 .. MaxLogs
      BY <1>1 DEF Blocks
    <2>2. {logged, dropped, told} \subseteq 0 .. MaxLogs
      BY <1>1, <1>2
    <2>3. {g_got_log, freed, unsignalled, overflowed} \subseteq BOOLEAN
      BY Zenon DEF LogTypes, RingTypes
    <2>4. {alive, entered, pname, doubled} \subseteq [Pids -> BOOLEAN]
      BY Zenon DEF LogTypes
    <2>5. behind \in [Pids -> Seq([pname : BOOLEAN, event : Threads \cup {NoPid}])]
      BY DEF LogTypes, Behinds
    <2>6. /\ head \in Queue!Slots /\ tail \in Queue!Slots
          /\ event \in {"NULL", "clear", "set"}
          /\ pid \in [Threads -> Pids \cup {NoPid}]
          /\ pname_event \in [Pids -> Threads \cup {NoPid}]
          /\ at \in [Threads -> {"idle", "set", "add", "log", "signal", "wait", "reset"}]
          /\ woken \in [Threads -> BOOLEAN]
          /\ program \in {"closed", "reading", "waiting", "closing"}
          /\ answers \subseteq Pids /\ naming \in Pids \cup {NoPid}
          /\ asked \in [Pids -> 0 .. MaxAsked]
      BY DEF LogTypes, RingTypes
    <2> QED
      BY <1>3, <2>1, <2>2, <2>3, <2>4, <2>5, <2>6 DEF Queue!TypeOK
  <1>5. Queue!BlocksOwned
    <2>1. ~freed => Queue!Cardinality(heap) = Queue!Count
      BY HeapCount, CountSame
    <2> QED
      BY <2>1 DEF Blocks, Queue!BlocksOwned
  <1> QED
    BY <1>4, <1>5

\* Each entry of the queue owns its block until it is read, dropped or freed with the
\* queue; only what the last log_request dropped is freed again (filter.c:178-203).
THEOREM RingAlwaysOwned == Queue!Spec => []RingOwned
  BY LogInit, LogStep, RingIs, PTL DEF Queue!Spec

LEMMA ServedIs == LogInv => WaitersServed
  <1> SUFFICES ASSUME LogInv PROVE Queue!FirstAnswered
    BY DEF WaitersServed, Queue!WaitersServed, LogInv, Inside
  <1> SUFFICES ASSUME NEW t \in Threads, at[t] = "wait", pname[pid[t]], asked[pid[t]] = 1
               PROVE  woken[t]
    BY DEF Queue!FirstAnswered
  <1>1. pid[t] \in Pids
    BY DEF LogInv, Inside
  <1> QED
    BY <1>1 DEF LogInv, FirstTime, FirstTimeOf

\* A program that waits for an entry there is will be woken, an event in the process
\* list is on the stack of a thread inside tdi_create, and the first request of a
\* process is allowed once its name is known (filter.c, pid_pname.c, disp_obj.c).
THEOREM WaitersAlwaysServed == Queue!Spec => []WaitersServed
  BY LogInit, LogStep, ServedIs, PTL DEF Queue!Spec

-----------------------------------------------------------------------------
(* The connections of tdi_fw.                                              *)

LEMMA ConnConstants == Null \notin ConnObjs \cup Entries /\ MAX_CLOSED_TIME \in Nat \ {0}
  BY PartsAssumption DEF Conn!TdiAssumption

\* The state a release is to set.
LEMMA NextStates == \A s : Conn!Next_state(s) \subseteq Conn!TcpStates
  BY PartsAssumption DEF Conn!TdiAssumption, Conn!Next_state, Conn!TcpStates

\* Who has an entry of the state table.
Pointed ==
    \A c \in ConnObjs : conn_entry[c] # Null =>
        /\ obj[c] /\ connobj[conn_entry[c]] = c
        /\ conn_entry[c] \notin g_conn_to_del /\ state[conn_entry[c]] # "FREE"

\* What is in the chain of closed entries, and that no entry is lost.
Chained ==
    /\ \A e \in g_conn_to_del : state[e] = "CLOSED"
    /\ circular <=> reused
    /\ ~reused => \A e \in Entries \ g_conn_to_del : state[e] # "FREE" =>
                      connobj[e] \in ConnObjs /\ conn_entry[connobj[e]] = e

\* What the entry of an open connection says: s is its state, f who has released.
OpenSays(rq, goal, ind, f, s) ==
    /\ rq = "open" => s \in {"SYN_SENT", "SYN_RCVD"}
    /\ rq = "idle" => \/ f = {} /\ s \in Conn!Established
                      \/ f = {"local"} /\ s = "FIN_WAIT2"
                      \/ f = {"remote"} /\ s \in Conn!Established
                      \/ f = {"remote"} /\ s = "CLOSE_WAIT" /\ ind = "NONE"
    /\ rq = "release" => \/ s \in Conn!Established /\ goal = "FIN_WAIT1"
                         \/ s = "CLOSE_WAIT" /\ f = {"remote"}
                              /\ ind = "NONE" /\ goal \in {"FIN_WAIT1", "LAST_ACK"}
    /\ rq = "disconnect" => \/ s \in {"FIN_WAIT1", "CLOSE_WAIT"} /\ goal = "FIN_WAIT1"
                            \/ s = "LAST_ACK" /\ f = {"remote"}
                              /\ ind = "NONE" /\ goal = "LAST_ACK"
    /\ rq = "abort" => s \in {"CLOSED", "CLOSE_WAIT"} /\ goal = "CLOSED"
    /\ rq # "idle" => "local" \notin f
    /\ f # {"local", "remote"}
    /\ ind # "NONE" => f = {"remote"} /\ ind = "CLOSE_WAIT"

\* What the handlers of a connection left in the table, and are about to do, for
\* each view the transport has of it, unless the client asks for an end again.
Consistent(c) ==
    LET s == Conn!get_tcp_conn_state_by_obj(c) IN
    /\ irp[c].at = "idle" => irp[c] = Conn!Idle
    /\ irp[c].state = "NONE" => irp[c].at = "idle"
    /\ irp[c].at = "open" => irp[c].state \in Conn!Established /\ indication[c] = "NONE" /\ ~again[c]
    /\ tcp[c] = "opening" => irp[c].at = "open"
    /\ tcp[c] # "open" => fins[c] = {}
    /\ ~obj[c] /\ unload = "no" => tcp[c] \in {"none", "opening"}
    /\ obj[c] =>
          /\ tcp[c] = "opening" => s \in {"SYN_SENT", "SYN_RCVD"}
          /\ tcp[c] = "reset" => s = "NONE" /\ indication[c] = "NONE"
    /\ obj[c] /\ ~again[c] =>
          /\ tcp[c] = "none" => irp[c].at = "idle" /\ s \in {"NONE", "FIN_WAIT2", "CLOSE_WAIT", "TIME_WAIT"}
          /\ tcp[c] = "open" => OpenSays(irp[c].at, irp[c].state, indication[c], fins[c], s)

Connections == \A c \in ConnObjs : Consistent(c)

\* The time the thread still waits, and what the unload has left to it.
Waiting ==
    /\ thread = "spin" => circular
    /\ ~reused => \A e \in g_conn_to_del : age[e] < 2 * MAX_CLOSED_TIME
    /\ ~reused /\ thread \in {"test", "wait"} /\ ~g_conn_new_to_del =>
          \A e \in g_conn_to_del : timeout <= MAX_CLOSED_TIME /\ age[e] + timeout < 2 * MAX_CLOSED_TIME

Exiting ==
    /\ unload # "no" => \A c \in ConnObjs : irp[c] = Conn!Idle /\ indication[c] = "NONE"
    /\ g_conn_thread <=> unload \in {"no", "ot_free"}
    /\ ~g_conn_thread => \A c \in ConnObjs : ~obj[c]
    /\ thread = "exited" => ~g_conn_thread
    /\ thread \in {"test", "exited"} /\ ~g_conn_thread /\ ~overtaken => g_conn_to_del = {} /\ ~circular

ConnInv == Conn!TypeOK /\ Pointed /\ Chained /\ Connections /\ Waiting /\ Exiting

-----------------------------------------------------------------------------
(* The functions of conn_state.c.                                          *)

\* The types of the object's and the entries' fields, and of the chain.
TableType ==
    /\ conn_entry \in [ConnObjs -> Entries \cup {Null}]
    /\ state \in [Entries -> Conn!TcpStates \cup {"FREE"}]
    /\ connobj \in [Entries -> ConnObjs \cup {Null}]
    /\ g_conn_to_del \in SUBSET Entries
    /\ circular \in BOOLEAN
    /\ age \in [Entries -> 0 .. 2 * MAX_CLOSED_TIME]
    /\ g_conn_new_to_del \in BOOLEAN

\* The three functions keep them.
LEMMA SetType ==
  ASSUME TableType, NEW c \in ConnObjs, NEW s \in Conn!TcpStates, Conn!set_tcp_conn_state(c, s)
  PROVE  TableType'
  BY DEF TableType, Conn!set_tcp_conn_state, Conn!HasEntry

LEMMA AddType ==
  ASSUME TableType, NEW c \in ConnObjs, NEW s \in Conn!TcpStates, Conn!add_tcp_conn(c, s)
  PROVE  TableType'
  BY DEF TableType, Conn!add_tcp_conn

\* An entry of the table is closed and goes into the chain.
LEMMA ClosedType ==
  ASSUME TableType, NEW e \in Entries, Conn!del_tcp_conn_obj(e), conn_entry' \in [ConnObjs -> Entries \cup {Null}]
  PROVE  TableType'
  <1>1. circular' \in BOOLEAN
    <2> (circular \/ e \in g_conn_to_del) \in BOOLEAN
      OBVIOUS
    <2> QED
      BY Zenon DEF Conn!del_tcp_conn_obj
  <1>2. age' \in [Entries -> 0 .. 2 * MAX_CLOSED_TIME]
    BY ConnConstants DEF TableType, Conn!del_tcp_conn_obj
  <1> QED
    BY <1>1, <1>2 DEF TableType, Conn!TcpStates, Conn!del_tcp_conn_obj

LEMMA DelType ==
  ASSUME TableType, NEW c \in ConnObjs, Conn!del_tcp_conn(c)
  PROVE  TableType'
  <1>1. CASE Conn!HasEntry(c)
    <2>1. conn_entry[c] \in Entries
      BY <1>1 DEF TableType, Conn!HasEntry
    <2>2. conn_entry' \in [ConnObjs -> Entries \cup {Null}]
      BY <1>1 DEF TableType, Conn!del_tcp_conn
    <2> QED
      BY <1>1, <2>1, <2>2, ClosedType DEF Conn!del_tcp_conn
  <1>2. CASE ~Conn!HasEntry(c)
    BY <1>2 DEF TableType, Conn!del_tcp_conn, Conn!table
  <1> QED
    BY <1>1, <1>2

\* set_tcp_conn_state sets the state of one connection, if that has an entry.
LEMMA SetState ==
  ASSUME Conn!TypeOK, Pointed, NEW c \in ConnObjs, NEW s, Conn!set_tcp_conn_state(c, s), obj' = obj,
         NEW d \in ConnObjs
  PROVE  Conn!get_tcp_conn_state_by_obj(d)' =
             IF d = c /\ Conn!get_tcp_conn_state_by_obj(c) # "NONE" THEN s ELSE Conn!get_tcp_conn_state_by_obj(d)
  BY ConnConstants
     DEF Conn!TypeOK, Conn!TcpStates, Pointed, Conn!set_tcp_conn_state, Conn!HasEntry, Conn!get_tcp_conn_state_by_obj

\* add_tcp_conn gives one connection an entry.
LEMMA AddConn ==
  ASSUME Conn!TypeOK, Pointed, NEW c \in ConnObjs, NEW s, Conn!add_tcp_conn(c, s), obj[c], obj' = obj,
         NEW d \in ConnObjs
  PROVE  Conn!get_tcp_conn_state_by_obj(d)' = IF d = c THEN s ELSE Conn!get_tcp_conn_state_by_obj(d)
  BY ConnConstants DEF Conn!TypeOK, Pointed, Conn!add_tcp_conn, Conn!HasEntry, Conn!get_tcp_conn_state_by_obj

\* del_tcp_conn takes the entry from one connection.
LEMMA DelConn ==
  ASSUME Conn!TypeOK, Pointed, NEW c \in ConnObjs, Conn!del_tcp_conn(c), NEW d \in ConnObjs,
         d # c => obj'[d] = obj[d]
  PROVE  Conn!get_tcp_conn_state_by_obj(d)' = IF d = c THEN "NONE" ELSE Conn!get_tcp_conn_state_by_obj(d)
  <1>1. CASE Conn!HasEntry(c)
    BY <1>1, ConnConstants
       DEF Conn!TypeOK, Pointed, Conn!del_tcp_conn, Conn!del_tcp_conn_obj, Conn!HasEntry, Conn!get_tcp_conn_state_by_obj
  <1>2. CASE ~Conn!HasEntry(c)
    BY <1>2, ConnConstants
       DEF Conn!TypeOK, Pointed, Conn!del_tcp_conn, Conn!table, Conn!HasEntry, Conn!get_tcp_conn_state_by_obj
  <1> QED
    BY <1>1, <1>2

\* The note of what a client asks for again.
LEMMA AgainType ==
  ASSUME Conn!TypeOK, NEW c \in ConnObjs, Conn!Disconnecting(c)
  PROVE  again' \in [ConnObjs -> BOOLEAN]
  <1>1. again \in [ConnObjs -> BOOLEAN]
    BY DEF Conn!TypeOK
  <1>2. PICK b \in BOOLEAN : again' = [again EXCEPT ![c] = b]
    BY Zenon DEF Conn!Disconnecting
  <1> QED
    BY <1>1, <1>2

LEMMA AgainOthers ==
  ASSUME Conn!TypeOK, NEW c \in ConnObjs, Conn!Disconnecting(c), NEW d \in ConnObjs \ {c}
  PROVE  again'[d] = again[d]
  BY Zenon DEF Conn!TypeOK, Conn!Disconnecting

\* A connection nothing happens to.
LEMMA Untouched ==
  ASSUME NEW d \in ConnObjs, Consistent(d), Conn!get_tcp_conn_state_by_obj(d)' = Conn!get_tcp_conn_state_by_obj(d),
         obj'[d] = obj[d], again'[d] <=> again[d], irp'[d] = irp[d], indication'[d] = indication[d], tcp'[d] = tcp[d],
         fins'[d] = fins[d], unload' = unload
  PROVE  Consistent(d)'
  BY DEF Consistent

\* TypeOK holds what TableType says.
LEMMA TableTypeOK ==
  ASSUME Conn!TypeOK
  PROVE  TableType
  BY DEF Conn!TypeOK, TableType

\* Every step keeps the types.
LEMMA StepConnType ==
  ASSUME Conn!TypeOK, Connections, [Conn!Next]_(Conn!vars)
  PROVE  Conn!TypeOK'
  <1>1. CASE Conn!Thread \/ Conn!Tick \/ Conn!TimeGoesBy
    <2>1. CASE Conn!ThreadWakes
      BY Conn!TypeOK, ConnConstants, <2>1
         DEF Conn!TypeOK, Conn!TcpStates, Conn!Established, Conn!Idle, Conn!Request, Conn!Forever, Conn!Released, Conn!Available,
             Conn!Disconnecting, Conn!Indicating, Conn!table, Conn!worker, Conn!history, Conn!network, Conn!ThreadWakes
    <2>2. CASE Conn!ThreadScans
      <3> DEFINE chain == {e \in g_conn_to_del : ~Conn!Expired(e)}
                 left  == {MAX_CLOSED_TIME - age[e] : e \in chain}
      <3>1. timeout' \in 0 .. Conn!Forever
        <4>1. CASE left = {}
          BY <2>2, <4>1, ConnConstants DEF Conn!ThreadScans, Conn!Forever
        <4>2. CASE left # {}
          <5>1. PICK e \in chain : timeout' = MAX_CLOSED_TIME - age[e]
            BY <2>2, <4>2 DEF Conn!ThreadScans
          <5>2. age[e] \in 0 .. 2 * MAX_CLOSED_TIME /\ age[e] < MAX_CLOSED_TIME
            BY Conn!TypeOK, ConnConstants DEF Conn!TypeOK, Conn!Expired
          <5> QED
            BY <5>1, <5>2, ConnConstants DEF Conn!Forever
        <4> QED
          BY <4>1, <4>2
      <3>2. age' \in [Entries -> 0 .. 2 * MAX_CLOSED_TIME]
        BY Conn!TypeOK, <2>2, ConnConstants DEF Conn!TypeOK, Conn!ThreadScans
      <3>3. state' \in [Entries -> Conn!TcpStates \cup {"FREE"}]
        BY Conn!TypeOK, <2>2 DEF Conn!TypeOK, Conn!ThreadScans
      <3> QED
        BY Conn!TypeOK, <2>2, <3>1, <3>2, <3>3 DEF Conn!TypeOK, Conn!network, Conn!history, Conn!ThreadScans
    <2>3. CASE Conn!ThreadLoops
      BY Conn!TypeOK, ConnConstants, <2>3
         DEF Conn!TypeOK, Conn!TcpStates, Conn!Established, Conn!Idle, Conn!Request, Conn!Forever, Conn!Released, Conn!Available,
             Conn!Disconnecting, Conn!Indicating, Conn!table, Conn!worker, Conn!history, Conn!network, Conn!ThreadLoops
    <2>4. CASE Conn!Tick
      BY Conn!TypeOK, ConnConstants, <2>4
         DEF Conn!TypeOK, Conn!TcpStates, Conn!Established, Conn!Idle, Conn!Request, Conn!Forever, Conn!Released, Conn!Available,
             Conn!Disconnecting, Conn!Indicating, Conn!table, Conn!worker, Conn!history, Conn!network, Conn!Tick
    <2>5. CASE Conn!ThreadSpins
      BY Conn!TypeOK, <2>5 DEF Conn!TypeOK, Conn!table, Conn!network, Conn!history, Conn!ThreadSpins
    <2>6. CASE Conn!TimeGoesBy
      BY Conn!TypeOK, <2>6, ConnConstants DEF Conn!TypeOK, Conn!worker, Conn!network, Conn!history, Conn!TimeGoesBy
    <2> QED
      BY <1>1, <2>1, <2>2, <2>3, <2>4, <2>5, <2>6 DEF Conn!Thread
  <1>2. CASE Conn!UnloadBegin \/ Conn!ConnStateFree \/ Conn!UnloadDone
    <2>1. CASE Conn!UnloadBegin
      BY Conn!TypeOK, ConnConstants, <2>1
         DEF Conn!TypeOK, Conn!TcpStates, Conn!Established, Conn!Idle, Conn!Request, Conn!Forever, Conn!Released, Conn!Available,
             Conn!Disconnecting, Conn!Indicating, Conn!table, Conn!worker, Conn!history, Conn!network, Conn!UnloadBegin
    <2>2. CASE Conn!ConnStateFree
      BY Conn!TypeOK, ConnConstants, <2>2
         DEF Conn!TypeOK, Conn!TcpStates, Conn!Established, Conn!Idle, Conn!Request, Conn!Forever, Conn!Released, Conn!Available,
             Conn!Disconnecting, Conn!Indicating, Conn!table, Conn!worker, Conn!history, Conn!network, Conn!ConnStateFree
    <2>3. CASE Conn!UnloadDone
      BY Conn!TypeOK, ConnConstants, <2>3
         DEF Conn!TypeOK, Conn!TcpStates, Conn!Established, Conn!Idle, Conn!Request, Conn!Forever, Conn!Released, Conn!Available,
             Conn!Disconnecting, Conn!Indicating, Conn!table, Conn!worker, Conn!history, Conn!network, Conn!UnloadDone
    <2> QED
      BY <1>2, <2>1, <2>2, <2>3
  <1>3. ASSUME NEW c \in ConnObjs, Conn!OtFree(c) PROVE Conn!TypeOK'
    <2>1. CASE Conn!OtFree(c)
      <3>1. TableType'
        BY Conn!TypeOK, TableTypeOK, <2>1, DelType DEF Conn!OtFree, Conn!TcpStates, Conn!Established
      <3> QED
        BY Conn!TypeOK, <2>1, <3>1, ConnConstants
           DEF TableType, Conn!TypeOK, Conn!TcpStates, Conn!Established, Conn!Idle, Conn!Request, Conn!Forever, Conn!Released,
               Conn!Available, Conn!Disconnecting, Conn!Indicating, Conn!table, Conn!worker, Conn!history, Conn!network, Conn!OtFree
    <2> QED
      BY <1>3, <2>1
  <1>4. ASSUME NEW c \in ConnObjs, Conn!Client(c) PROVE Conn!TypeOK'
    <2>1. CASE Conn!Create(c)
      BY Conn!TypeOK, ConnConstants, <2>1
         DEF Conn!TypeOK, Conn!TcpStates, Conn!Established, Conn!Idle, Conn!Request, Conn!Forever, Conn!Released, Conn!Available,
             Conn!Disconnecting, Conn!Indicating, Conn!table, Conn!worker, Conn!history, Conn!network, Conn!Create
    <2>2. CASE Conn!Cleanup(c)
      <3>1. TableType'
        BY Conn!TypeOK, TableTypeOK, <2>2, DelType DEF Conn!Cleanup, Conn!TcpStates, Conn!Established
      <3> QED
        BY Conn!TypeOK, <2>2, <3>1, ConnConstants
           DEF TableType, Conn!TypeOK, Conn!TcpStates, Conn!Established, Conn!Idle, Conn!Request, Conn!Forever, Conn!Released,
               Conn!Available, Conn!Disconnecting, Conn!Indicating, Conn!table, Conn!worker, Conn!history, Conn!network, Conn!Cleanup
    <2>3. CASE Conn!Connect(c)
      <3>1. TableType'
        BY Conn!TypeOK, TableTypeOK, <2>3, AddType DEF Conn!Connect, Conn!TcpStates, Conn!Established
      <3> QED
        BY Conn!TypeOK, <2>3, <3>1, ConnConstants
           DEF TableType, Conn!TypeOK, Conn!TcpStates, Conn!Established, Conn!Idle, Conn!Request, Conn!Forever, Conn!Released,
               Conn!Available, Conn!Disconnecting, Conn!Indicating, Conn!table, Conn!worker, Conn!history, Conn!network, Conn!Connect
    <2>4. CASE Conn!Release(c)
      <3> PICK s \in Conn!Next_state(Conn!get_tcp_conn_state_by_obj(c)) :
                 irp' = [irp EXCEPT ![c] = Conn!Request("release", s)]
        BY <2>4 DEF Conn!Release
      <3> s \in Conn!TcpStates
        BY NextStates
      <3>1. irp' \in [ConnObjs -> [at : {"idle", "open", "release", "disconnect", "abort"},
                                   state : Conn!TcpStates \cup {"NONE"}]]
        BY Conn!TypeOK DEF Conn!TypeOK, Conn!Request
      <3>2. UNCHANGED <<obj, Conn!table, Conn!worker, indication, Conn!network, reused>>
        BY <2>4 DEF Conn!Release
      <3>3. again' \in [ConnObjs -> BOOLEAN]
        BY Conn!TypeOK, <2>4, AgainType DEF Conn!Release
      <3> QED
        BY Conn!TypeOK, <3>1, <3>2, <3>3, Zenon
           DEF Conn!TypeOK, Conn!TcpStates, Conn!Forever, Conn!table, Conn!worker, Conn!network
    <2>5. CASE Conn!ReleaseSet(c)
      <3>1. irp[c].state \in Conn!TcpStates
        BY Conn!TypeOK, Connections, <2>5 DEF Conn!TypeOK, Connections, Consistent, Conn!ReleaseSet
      <3>2. TableType'
        BY TableTypeOK, <2>5, <3>1, SetType DEF Conn!ReleaseSet
      <3>3. irp' \in [ConnObjs -> [at : {"idle", "open", "release", "disconnect", "abort"},
                                   state : Conn!TcpStates \cup {"NONE"}]]
        BY Conn!TypeOK, <2>5, <3>1 DEF Conn!TypeOK, Conn!Request, Conn!ReleaseSet
      <3>4. UNCHANGED <<obj, Conn!worker, indication, Conn!network, Conn!history>>
        BY <2>5 DEF Conn!ReleaseSet
      <3> QED
        BY Conn!TypeOK, <3>2, <3>3, <3>4, Zenon
           DEF TableType, Conn!TypeOK, Conn!TcpStates, Conn!Forever, Conn!worker, Conn!network, Conn!history
    <2>6. CASE Conn!Abort(c)
      <3>1. TableType'
        BY Conn!TypeOK, TableTypeOK, <2>6, SetType DEF Conn!Abort, Conn!TcpStates, Conn!Established
      <3> QED
        BY Conn!TypeOK, <2>6, <3>1, ConnConstants
           DEF TableType, Conn!TypeOK, Conn!TcpStates, Conn!Established, Conn!Idle, Conn!Request, Conn!Forever, Conn!Released,
               Conn!Available, Conn!Disconnecting, Conn!Indicating, Conn!table, Conn!worker, Conn!history, Conn!network, Conn!Abort
    <2> QED
      BY <1>4, <2>1, <2>2, <2>3, <2>4, <2>5, <2>6 DEF Conn!Client
  <1>5. ASSUME NEW c \in ConnObjs, Conn!Transport(c) PROVE Conn!TypeOK'
    <2>1. CASE Conn!Accept(c)
      <3>1. TableType'
        BY Conn!TypeOK, TableTypeOK, <2>1, AddType DEF Conn!Accept, Conn!TcpStates, Conn!Established
      <3> QED
        BY Conn!TypeOK, <2>1, <3>1, ConnConstants
           DEF TableType, Conn!TypeOK, Conn!TcpStates, Conn!Established, Conn!Idle, Conn!Request, Conn!Forever, Conn!Released,
               Conn!Available, Conn!Disconnecting, Conn!Indicating, Conn!table, Conn!worker, Conn!history, Conn!network, Conn!Accept
    <2>2. CASE Conn!AcceptReused(c)
      <3> conn_entry[c] \in Entries
        BY Conn!TypeOK, <2>2 DEF Conn!TypeOK, Conn!AcceptReused, Conn!HasEntry
      <3> QED
        BY Conn!TypeOK, ConnConstants, <2>2 DEF Conn!TypeOK, Conn!TcpStates, Conn!worker, Conn!history, Conn!network, Conn!AcceptReused
    <2>3. CASE Conn!TransportOpens(c)
      BY Conn!TypeOK, <2>3
         DEF Conn!TypeOK, Conn!table, Conn!worker, Conn!history, Conn!TransportOpens
    <2>4. CASE Conn!OpenComplete(c)
      <3>1. irp[c].state \in Conn!TcpStates
        BY Conn!TypeOK, Connections, <2>4 DEF Conn!TypeOK, Connections, Consistent, Conn!OpenComplete
      <3>2. TableType'
        BY TableTypeOK, <2>4, <3>1, SetType DEF Conn!OpenComplete
      <3> QED
        BY Conn!TypeOK, <2>4, <3>2, ConnConstants
           DEF TableType, Conn!TypeOK, Conn!TcpStates, Conn!Established, Conn!Idle, Conn!Request, Conn!Forever, Conn!Released,
               Conn!Available, Conn!Disconnecting, Conn!Indicating, Conn!table, Conn!worker, Conn!history, Conn!network, Conn!OpenComplete
    <2>5. CASE Conn!OpenFails(c)
      <3>1. TableType'
        BY Conn!TypeOK, TableTypeOK, <2>5, DelType DEF Conn!OpenFails, Conn!TcpStates, Conn!Established
      <3> QED
        BY Conn!TypeOK, <2>5, <3>1, ConnConstants
           DEF TableType, Conn!TypeOK, Conn!TcpStates, Conn!Established, Conn!Idle, Conn!Request, Conn!Forever, Conn!Released,
               Conn!Available, Conn!Disconnecting, Conn!Indicating, Conn!table, Conn!worker, Conn!history, Conn!network, Conn!OpenFails
    <2>6. CASE Conn!DisconnectComplete(c)
      <3>1. TableType'
        <4>1. CASE irp[c].state = "FIN_WAIT1"
          BY TableTypeOK, <2>6, <4>1, SetType DEF Conn!Disconnected, Conn!DisconnectComplete, Conn!TcpStates
        <4>2. CASE irp[c].state \in {"LAST_ACK", "CLOSED"}
          BY TableTypeOK, <2>6, <4>2, DelType DEF Conn!Disconnected, Conn!DisconnectComplete
        <4>3. CASE irp[c].state \notin {"FIN_WAIT1", "LAST_ACK", "CLOSED"}
          BY TableTypeOK, <2>6, <4>3 DEF Conn!Disconnected, Conn!DisconnectComplete, TableType, Conn!table
        <4> QED
          BY <4>1, <4>2, <4>3
      <3>2. /\ tcp' \in [ConnObjs -> {"none", "opening", "open", "reset"}]
            /\ fins' \in [ConnObjs -> SUBSET {"local", "remote"}]
        <4>1. CASE irp[c].at = "abort"
          BY Conn!TypeOK, <2>6, <4>1 DEF Conn!TypeOK, Conn!Disconnected, Conn!DisconnectComplete
        <4>2. CASE irp[c].at # "abort"
          BY Conn!TypeOK, <2>6, <4>2 DEF Conn!TypeOK, Conn!Disconnected, Conn!DisconnectComplete, Conn!Released
        <4> QED
          BY <4>1, <4>2
      <3> QED
        BY Conn!TypeOK, <2>6, <3>1, <3>2 DEF Conn!TypeOK, TableType, Conn!Idle, Conn!worker, Conn!history, Conn!Disconnected, Conn!DisconnectComplete
    <2>7. CASE Conn!DisconnectFails(c)
      BY Conn!TypeOK, ConnConstants, <2>7
         DEF Conn!TypeOK, Conn!TcpStates, Conn!Established, Conn!Idle, Conn!Request, Conn!Forever, Conn!Released, Conn!Available,
             Conn!Disconnecting, Conn!Indicating, Conn!table, Conn!worker, Conn!history, Conn!network, Conn!DisconnectFails
    <2>8. CASE Conn!RemoteRelease(c)
      BY Conn!TypeOK, ConnConstants, <2>8
         DEF Conn!TypeOK, Conn!TcpStates, Conn!Established, Conn!Idle, Conn!Request, Conn!Forever, Conn!Released, Conn!Available,
             Conn!Disconnecting, Conn!Indicating, Conn!table, Conn!worker, Conn!history, Conn!network, Conn!RemoteRelease
    <2>9. CASE Conn!RemoteReleaseSet(c)
      <3>1. indication[c] \in Conn!TcpStates
        BY Conn!TypeOK, <2>9 DEF Conn!TypeOK, Conn!TcpStates, Conn!RemoteReleaseSet
      <3>2. TableType'
        BY TableTypeOK, <2>9, <3>1, SetType DEF Conn!RemoteReleaseSet
      <3> QED
        BY Conn!TypeOK, <2>9, <3>2, ConnConstants
           DEF TableType, Conn!TypeOK, Conn!TcpStates, Conn!Established, Conn!Idle, Conn!Request, Conn!Forever, Conn!Released,
               Conn!Available, Conn!Disconnecting, Conn!Indicating, Conn!table, Conn!worker, Conn!history, Conn!network, Conn!RemoteReleaseSet
    <2>10. CASE Conn!RemoteAbort(c)
      <3>1. TableType'
        BY Conn!TypeOK, TableTypeOK, <2>10, DelType DEF Conn!RemoteAbort, Conn!TcpStates, Conn!Established
      <3> QED
        BY Conn!TypeOK, <2>10, <3>1, ConnConstants
           DEF TableType, Conn!TypeOK, Conn!TcpStates, Conn!Established, Conn!Idle, Conn!Request, Conn!Forever, Conn!Released,
               Conn!Available, Conn!Disconnecting, Conn!Indicating, Conn!table, Conn!worker, Conn!history, Conn!network, Conn!RemoteAbort
    <2> QED
      BY <1>5, <2>1, <2>2, <2>3, <2>4, <2>5, <2>6, <2>7, <2>8, <2>9, <2>10 DEF Conn!Transport
  <1>6. CASE UNCHANGED Conn!vars
    BY <1>6 DEF Conn!TypeOK, Conn!vars, Conn!table, Conn!worker, Conn!history, Conn!network
  <1> QED
    BY <1>1, <1>2, <1>3, <1>4, <1>5, <1>6 DEF Conn!Next, Conn!Unload

\* What each of the functions does to the pointers.
LEMMA SetPointed ==
  ASSUME Conn!TypeOK, Pointed, NEW c \in ConnObjs, NEW s \in Conn!TcpStates, Conn!set_tcp_conn_state(c, s), obj' = obj
  PROVE  Pointed'
  BY ConnConstants DEF Conn!TypeOK, Conn!TcpStates, Pointed, Conn!set_tcp_conn_state, Conn!HasEntry

LEMMA AddPointed ==
  ASSUME Conn!TypeOK, Pointed, Chained, NEW c \in ConnObjs, NEW s \in Conn!TcpStates, Conn!add_tcp_conn(c, s),
             obj[c], obj' = obj
  PROVE  Pointed'
  <1>1. s # "FREE"
    BY DEF Conn!TcpStates
  <1>2. PICK e \in Entries :
           /\ state[e] = "FREE"
           /\ conn_entry' = [conn_entry EXCEPT ![c] = e]
           /\ state' = [state EXCEPT ![e] = s]
           /\ connobj' = [connobj EXCEPT ![e] = c]
    BY DEF Conn!add_tcp_conn
  <1>3. e \notin g_conn_to_del
    BY <1>2 DEF Chained
  <1> SUFFICES ASSUME NEW d \in ConnObjs, conn_entry'[d] # Null
               PROVE  /\ obj'[d] /\ connobj'[conn_entry'[d]] = d
                      /\ conn_entry'[d] \notin g_conn_to_del' /\ state'[conn_entry'[d]] # "FREE"
    BY DEF Pointed
  <1>4. CASE d = c
    BY <1>1, <1>2, <1>3, <1>4 DEF Conn!TypeOK, Conn!add_tcp_conn
  <1>5. CASE d # c
    BY <1>1, <1>2, <1>3, <1>5 DEF Conn!TypeOK, Pointed, Conn!add_tcp_conn
  <1> QED
    BY <1>4, <1>5

LEMMA DelPointed ==
  ASSUME Conn!TypeOK, Pointed, NEW c \in ConnObjs, Conn!del_tcp_conn(c),
         \A d \in ConnObjs \ {c} : obj'[d] = obj[d]
  PROVE  Pointed'
  <1>1. CASE Conn!HasEntry(c)
    <2> SUFFICES ASSUME NEW d \in ConnObjs, conn_entry'[d] # Null
                 PROVE  /\ obj'[d] /\ connobj'[conn_entry'[d]] = d
                        /\ conn_entry'[d] \notin g_conn_to_del' /\ state'[conn_entry'[d]] # "FREE"
      BY DEF Pointed
    <2>1. d # c /\ conn_entry'[d] = conn_entry[d]
      BY <1>1 DEF Conn!TypeOK, Conn!del_tcp_conn, Conn!HasEntry
    <2>2. conn_entry[d] # conn_entry[c]
      BY <1>1, <2>1 DEF Pointed, Conn!HasEntry
    <2> QED
      BY <1>1, <2>1, <2>2 DEF Conn!TypeOK, Pointed, Conn!del_tcp_conn, Conn!del_tcp_conn_obj, Conn!HasEntry
  <1>2. CASE ~Conn!HasEntry(c)
    BY <1>2 DEF Pointed, Conn!del_tcp_conn, Conn!table, Conn!HasEntry
  <1> QED
    BY <1>1, <1>2

\* No pointer to an entry that is queued or free.
LEMMA StepPointed ==
  ASSUME Conn!TypeOK, Pointed, Chained, Connections, [Conn!Next]_(Conn!vars)
  PROVE  Pointed'
  <1>1. CASE Conn!Thread \/ Conn!Tick \/ Conn!TimeGoesBy
    <2>1. CASE Conn!ThreadWakes
      BY Conn!TypeOK, Pointed, Chained, <2>1
         DEF Conn!ThreadWakes, Conn!TypeOK, Pointed, Conn!table
    <2>2. CASE Conn!ThreadScans
      BY Conn!TypeOK, Pointed, Chained, <2>2
         DEF Conn!ThreadScans, Conn!TypeOK, Pointed, Conn!table
    <2>3. CASE Conn!ThreadLoops
      BY Conn!TypeOK, Pointed, Chained, <2>3
         DEF Conn!ThreadLoops, Conn!TypeOK, Pointed, Conn!table
    <2>4. CASE Conn!Tick
      BY Conn!TypeOK, Pointed, Chained, <2>4
         DEF Conn!Tick, Conn!TypeOK, Pointed, Conn!table
    <2>5. CASE Conn!ThreadSpins
      BY <2>5 DEF Conn!ThreadSpins, Pointed, Conn!table
    <2>6. CASE Conn!TimeGoesBy
      BY <2>6 DEF Conn!TimeGoesBy, Pointed
    <2> QED
      BY <1>1, <2>1, <2>2, <2>3, <2>4, <2>5, <2>6 DEF Conn!Thread
  <1>2. CASE Conn!UnloadBegin \/ Conn!ConnStateFree \/ Conn!UnloadDone
    <2>1. CASE Conn!UnloadBegin
      BY Conn!TypeOK, Pointed, Chained, <2>1
         DEF Conn!UnloadBegin, Conn!TypeOK, Pointed, Conn!table
    <2>2. CASE Conn!ConnStateFree
      BY Conn!TypeOK, Pointed, Chained, <2>2
         DEF Conn!ConnStateFree, Conn!TypeOK, Pointed, Conn!table
    <2>3. CASE Conn!UnloadDone
      BY Conn!TypeOK, Pointed, Chained, <2>3
         DEF Conn!UnloadDone, Conn!TypeOK, Pointed, Conn!table
    <2> QED
      BY <1>2, <2>1, <2>2, <2>3
  <1>3. ASSUME NEW c \in ConnObjs, Conn!OtFree(c) PROVE Pointed'
    <2>1. CASE Conn!OtFree(c)
      BY Conn!TypeOK, <2>1, DelPointed DEF Conn!TypeOK, Conn!OtFree
    <2> QED
      BY <1>3, <2>1
  <1>4. ASSUME NEW c \in ConnObjs, Conn!Client(c) PROVE Pointed'
    <2>1. CASE Conn!Create(c)
      BY Conn!TypeOK, Pointed, Chained, <2>1
         DEF Conn!Create, Conn!TypeOK, Pointed, Conn!table
    <2>2. CASE Conn!Cleanup(c)
      BY Conn!TypeOK, <2>2, DelPointed DEF Conn!TypeOK, Conn!Cleanup
    <2>3. CASE Conn!Connect(c)
      BY <2>3, AddPointed DEF Conn!Connect, Conn!Available, Conn!TcpStates
    <2>4. CASE Conn!Release(c)
      BY Conn!TypeOK, Pointed, Chained, <2>4
         DEF Conn!Release, Conn!TypeOK, Pointed, Conn!table
    <2>5. CASE Conn!ReleaseSet(c)
      <3>1. irp[c].state \in Conn!TcpStates
        BY Conn!TypeOK, Connections, <2>5 DEF Conn!TypeOK, Connections, Consistent, Conn!ReleaseSet
      <3> QED
        BY <2>5, <3>1, SetPointed DEF Conn!ReleaseSet
    <2>6. CASE Conn!Abort(c)
      BY <2>6, SetPointed DEF Conn!Abort, Conn!TcpStates
    <2> QED
      BY <1>4, <2>1, <2>2, <2>3, <2>4, <2>5, <2>6 DEF Conn!Client
  <1>5. ASSUME NEW c \in ConnObjs, Conn!Transport(c) PROVE Pointed'
    <2>1. CASE Conn!Accept(c)
      BY <2>1, AddPointed DEF Conn!Accept, Conn!Available, Conn!TcpStates
    <2>2. CASE Conn!AcceptReused(c)
      <3> DEFINE e == conn_entry[c]
      <3>1. e \in Entries /\ e # Null /\ connobj[e] = c
        BY Conn!TypeOK, Pointed, <2>2 DEF Conn!TypeOK, Pointed, Conn!AcceptReused, Conn!HasEntry
      <3>2. ASSUME NEW d \in ConnObjs, conn_entry'[d] # Null
            PROVE  /\ obj'[d] /\ connobj'[conn_entry'[d]] = d
                   /\ conn_entry'[d] \notin g_conn_to_del' /\ state'[conn_entry'[d]] # "FREE"
        <4>1. d # c /\ conn_entry'[d] = conn_entry[d] /\ conn_entry[d] # e
          BY Conn!TypeOK, Pointed, <2>2, <3>1, <3>2 DEF Conn!TypeOK, Pointed, Conn!AcceptReused
        <4> QED
          BY Conn!TypeOK, Pointed, <2>2, <3>1, <3>2, <4>1 DEF Conn!TypeOK, Pointed, Conn!AcceptReused
      <3> QED
        BY <3>2 DEF Pointed
    <2>3. CASE Conn!TransportOpens(c)
      BY Conn!TypeOK, Pointed, Chained, <2>3
         DEF Conn!TransportOpens, Conn!TypeOK, Pointed, Conn!table
    <2>4. CASE Conn!OpenComplete(c)
      <3>1. irp[c].state \in Conn!TcpStates
        BY Conn!TypeOK, Connections, <2>4 DEF Conn!TypeOK, Connections, Consistent, Conn!OpenComplete
      <3> QED
        BY <2>4, <3>1, SetPointed DEF Conn!OpenComplete
    <2>5. CASE Conn!OpenFails(c)
      BY <2>5, DelPointed DEF Conn!OpenFails
    <2>6. CASE Conn!DisconnectComplete(c)
      <3>1. CASE irp[c].state = "FIN_WAIT1"
        BY <2>6, <3>1, SetPointed DEF Conn!Disconnected, Conn!DisconnectComplete, Conn!TcpStates
      <3>2. CASE irp[c].state \in {"LAST_ACK", "CLOSED"}
        BY <2>6, <3>2, DelPointed DEF Conn!Disconnected, Conn!DisconnectComplete
      <3>3. CASE irp[c].state \notin {"FIN_WAIT1", "LAST_ACK", "CLOSED"}
        BY <2>6, <3>3 DEF Conn!Disconnected, Conn!DisconnectComplete, Pointed, Conn!table
      <3> QED
        BY <3>1, <3>2, <3>3
    <2>7. CASE Conn!DisconnectFails(c)
      BY Conn!TypeOK, Pointed, Chained, <2>7
         DEF Conn!DisconnectFails, Conn!TypeOK, Pointed, Conn!table
    <2>8. CASE Conn!RemoteRelease(c)
      BY Conn!TypeOK, Pointed, Chained, <2>8
         DEF Conn!RemoteRelease, Conn!TypeOK, Pointed, Conn!table
    <2>9. CASE Conn!RemoteReleaseSet(c)
      <3>1. indication[c] \in Conn!TcpStates
        BY Conn!TypeOK, <2>9 DEF Conn!TypeOK, Conn!TcpStates, Conn!RemoteReleaseSet
      <3> QED
        BY <2>9, <3>1, SetPointed DEF Conn!RemoteReleaseSet
    <2>10. CASE Conn!RemoteAbort(c)
      BY <2>10, DelPointed DEF Conn!RemoteAbort
    <2> QED
      BY <1>5, <2>1, <2>2, <2>3, <2>4, <2>5, <2>6, <2>7, <2>8, <2>9, <2>10 DEF Conn!Transport
  <1>6. CASE UNCHANGED Conn!vars
    BY <1>6 DEF Pointed, Conn!vars, Conn!table
  <1> QED
    BY <1>1, <1>2, <1>3, <1>4, <1>5, <1>6 DEF Conn!Next, Conn!Unload

\* What each of the functions does to the chain and the entries not in it.
LEMMA SetChained ==
  ASSUME Conn!TypeOK, Pointed, Chained, NEW c \in ConnObjs, NEW s \in Conn!TcpStates, Conn!set_tcp_conn_state(c, s),
         reused' = reused
  PROVE  Chained'
  <1>1. CASE Conn!HasEntry(c)
    <2>1. conn_entry[c] \in Entries /\ conn_entry[c] \notin g_conn_to_del /\ state[conn_entry[c]] # "FREE"
      BY <1>1 DEF Conn!TypeOK, Pointed, Conn!HasEntry
    <2> QED
      BY <1>1, <2>1 DEF Conn!TypeOK, Chained, Conn!set_tcp_conn_state
  <1>2. CASE ~Conn!HasEntry(c)
    BY <1>2 DEF Chained, Conn!set_tcp_conn_state
  <1> QED
    BY <1>1, <1>2

LEMMA AddChained ==
  ASSUME Conn!TypeOK, Chained, NEW c \in ConnObjs, NEW s, Conn!add_tcp_conn(c, s), reused' = reused
  PROVE  Chained'
  <1>1. PICK e \in Entries :
           /\ state[e] = "FREE"
           /\ conn_entry' = [conn_entry EXCEPT ![c] = e]
           /\ state' = [state EXCEPT ![e] = s]
           /\ connobj' = [connobj EXCEPT ![e] = c]
    BY DEF Conn!add_tcp_conn
  <1>2. e \notin g_conn_to_del
    BY <1>1 DEF Chained
  <1>3. \A x \in g_conn_to_del : state'[x] = "CLOSED"
    BY <1>1, <1>2 DEF Conn!TypeOK, Chained
  <1>4. ASSUME ~reused, NEW x \in Entries \ g_conn_to_del, state'[x] # "FREE"
        PROVE  connobj'[x] \in ConnObjs /\ conn_entry'[connobj'[x]] = x
    <2>1. CASE x = e
      BY <1>1, <2>1 DEF Conn!TypeOK
    <2>2. CASE x # e
      <3>1. connobj[x] \in ConnObjs /\ conn_entry[connobj[x]] = x /\ connobj'[x] = connobj[x]
        BY <1>1, <1>4, <2>2 DEF Conn!TypeOK, Chained
      <3>2. connobj[x] # c
        BY <3>1, ConnConstants DEF Conn!add_tcp_conn, Conn!TypeOK
      <3> QED
        BY <1>1, <3>1, <3>2 DEF Conn!TypeOK
    <2> QED
      BY <2>1, <2>2
  <1> QED
    BY <1>3, <1>4 DEF Chained, Conn!add_tcp_conn

LEMMA DelChained ==
  ASSUME Conn!TypeOK, Pointed, Chained, NEW c \in ConnObjs, Conn!del_tcp_conn(c), reused' = reused
  PROVE  Chained'
  <1>1. CASE Conn!HasEntry(c)
    <2>1. conn_entry[c] \in Entries /\ conn_entry[c] \notin g_conn_to_del
      BY <1>1 DEF Conn!TypeOK, Pointed, Conn!HasEntry
    <2>2. \A x \in g_conn_to_del' : state'[x] = "CLOSED"
      BY <1>1, <2>1 DEF Conn!TypeOK, Chained, Conn!del_tcp_conn, Conn!del_tcp_conn_obj
    <2>3. circular' <=> reused'
      <3>1. circular' = (circular \/ conn_entry[c] \in g_conn_to_del)
        BY <1>1, Zenon DEF Conn!del_tcp_conn, Conn!del_tcp_conn_obj
      <3> QED
        BY <2>1, <3>1, Zenon DEF Chained
    <2>4. ASSUME ~reused, NEW x \in Entries \ g_conn_to_del', state'[x] # "FREE"
          PROVE  connobj'[x] \in ConnObjs /\ conn_entry'[connobj'[x]] = x
      BY <1>1, <2>1, <2>4 DEF Conn!TypeOK, Chained, Conn!del_tcp_conn, Conn!del_tcp_conn_obj
    <2> QED
      BY <2>2, <2>3, <2>4 DEF Chained
  <1>2. CASE ~Conn!HasEntry(c)
    BY <1>2 DEF Chained, Conn!del_tcp_conn, Conn!table
  <1> QED
    BY <1>1, <1>2

\* What is in the chain is closed, and what is not in it is free or somebody's.
LEMMA StepChained ==
  ASSUME Conn!TypeOK, Pointed, Chained, Connections, [Conn!Next]_(Conn!vars)
  PROVE  Chained'
  <1>1. CASE Conn!Thread \/ Conn!Tick \/ Conn!TimeGoesBy
    <2>1. CASE Conn!ThreadWakes
      BY Conn!TypeOK, Pointed, Chained, <2>1
         DEF Conn!ThreadWakes, Conn!TypeOK, Chained, Conn!table, Conn!worker, Conn!history
    <2>2. CASE Conn!ThreadScans
      <3>1. g_conn_to_del' = {e \in g_conn_to_del : ~Conn!Expired(e)}
        BY <2>2 DEF Conn!ThreadScans
      <3>2. \A e \in Entries : state'[e] =
                 IF e \in g_conn_to_del \ g_conn_to_del' THEN "FREE" ELSE state[e]
        BY <2>2 DEF Conn!ThreadScans
      <3>3. \A e \in g_conn_to_del' : state'[e] = "CLOSED"
        BY Conn!TypeOK, Chained, <3>1, <3>2 DEF Conn!TypeOK, Chained
      <3> QED
        BY Chained, <2>2, <3>1, <3>2, <3>3 DEF Chained, Conn!ThreadScans, Conn!history
    <2>3. CASE Conn!ThreadLoops
      BY Conn!TypeOK, Pointed, Chained, <2>3
         DEF Conn!ThreadLoops, Conn!TypeOK, Chained, Conn!table, Conn!worker, Conn!history
    <2>4. CASE Conn!Tick
      BY Conn!TypeOK, Pointed, Chained, <2>4
         DEF Conn!Tick, Conn!TypeOK, Chained, Conn!table, Conn!worker, Conn!history
    <2>5. CASE Conn!ThreadSpins
      BY <2>5 DEF Conn!ThreadSpins, Chained, Conn!table, Conn!history
    <2>6. CASE Conn!TimeGoesBy
      BY <2>6 DEF Conn!TimeGoesBy, Chained, Conn!history
    <2> QED
      BY <1>1, <2>1, <2>2, <2>3, <2>4, <2>5, <2>6 DEF Conn!Thread
  <1>2. CASE Conn!UnloadBegin \/ Conn!ConnStateFree \/ Conn!UnloadDone
    <2>1. CASE Conn!UnloadBegin
      BY Conn!TypeOK, Pointed, Chained, <2>1
         DEF Conn!UnloadBegin, Conn!TypeOK, Chained, Conn!table, Conn!worker, Conn!history
    <2>2. CASE Conn!ConnStateFree
      BY Conn!TypeOK, Pointed, Chained, <2>2
         DEF Conn!ConnStateFree, Conn!TypeOK, Chained, Conn!table, Conn!worker, Conn!history
    <2>3. CASE Conn!UnloadDone
      BY Conn!TypeOK, Pointed, Chained, <2>3
         DEF Conn!UnloadDone, Conn!TypeOK, Chained, Conn!table, Conn!worker, Conn!history
    <2> QED
      BY <1>2, <2>1, <2>2, <2>3
  <1>3. ASSUME NEW c \in ConnObjs, Conn!OtFree(c) PROVE Chained'
    <2>1. CASE Conn!OtFree(c)
      BY <2>1, DelChained DEF Conn!history, Conn!OtFree
    <2> QED
      BY <1>3, <2>1
  <1>4. ASSUME NEW c \in ConnObjs, Conn!Client(c) PROVE Chained'
    <2>1. CASE Conn!Create(c)
      BY Conn!TypeOK, Pointed, Chained, <2>1
         DEF Conn!Create, Conn!TypeOK, Chained, Conn!table, Conn!worker, Conn!history
    <2>2. CASE Conn!Cleanup(c)
      BY <2>2, DelChained DEF Conn!history, Conn!Cleanup
    <2>3. CASE Conn!Connect(c)
      BY <2>3, AddChained DEF Conn!history, Conn!Connect
    <2>4. CASE Conn!Release(c)
      BY Conn!TypeOK, Pointed, Chained, <2>4
         DEF Conn!Release, Conn!TypeOK, Chained, Conn!table, Conn!worker, Conn!history
    <2>5. CASE Conn!ReleaseSet(c)
      <3>1. irp[c].state \in Conn!TcpStates
        BY Conn!TypeOK, Connections, <2>5 DEF Conn!TypeOK, Connections, Consistent, Conn!ReleaseSet
      <3> QED
        BY <2>5, <3>1, SetChained DEF Conn!history, Conn!ReleaseSet
    <2>6. CASE Conn!Abort(c)
      BY <2>6, SetChained DEF Conn!history, Conn!Abort, Conn!TcpStates
    <2> QED
      BY <1>4, <2>1, <2>2, <2>3, <2>4, <2>5, <2>6 DEF Conn!Client
  <1>5. ASSUME NEW c \in ConnObjs, Conn!Transport(c) PROVE Chained'
    <2>1. CASE Conn!Accept(c)
      BY <2>1, AddChained DEF Conn!history, Conn!Accept
    <2>2. CASE Conn!AcceptReused(c)
      <3>1. conn_entry[c] \in Entries
        BY Conn!TypeOK, <2>2 DEF Conn!TypeOK, Conn!AcceptReused, Conn!HasEntry
      <3> QED
        BY Conn!TypeOK, <2>2, <3>1 DEF Conn!TypeOK, Chained, Conn!AcceptReused
    <2>3. CASE Conn!TransportOpens(c)
      BY Conn!TypeOK, Pointed, Chained, <2>3
         DEF Conn!TransportOpens, Conn!TypeOK, Chained, Conn!table, Conn!worker, Conn!history
    <2>4. CASE Conn!OpenComplete(c)
      <3>1. irp[c].state \in Conn!TcpStates
        BY Conn!TypeOK, Connections, <2>4 DEF Conn!TypeOK, Connections, Consistent, Conn!OpenComplete
      <3> QED
        BY <2>4, <3>1, SetChained DEF Conn!history, Conn!OpenComplete
    <2>5. CASE Conn!OpenFails(c)
      BY <2>5, DelChained DEF Conn!history, Conn!OpenFails
    <2>6. CASE Conn!DisconnectComplete(c)
      <3>1. CASE irp[c].state = "FIN_WAIT1"
        BY <2>6, <3>1, SetChained DEF Conn!history, Conn!Disconnected, Conn!DisconnectComplete, Conn!TcpStates
      <3>2. CASE irp[c].state \in {"LAST_ACK", "CLOSED"}
        BY <2>6, <3>2, DelChained DEF Conn!history, Conn!Disconnected, Conn!DisconnectComplete
      <3>3. CASE irp[c].state \notin {"FIN_WAIT1", "LAST_ACK", "CLOSED"}
        BY <2>6, <3>3 DEF Conn!Disconnected, Conn!DisconnectComplete, Conn!history, Chained, Conn!table
      <3> QED
        BY <3>1, <3>2, <3>3
    <2>7. CASE Conn!DisconnectFails(c)
      BY Conn!TypeOK, Pointed, Chained, <2>7
         DEF Conn!DisconnectFails, Conn!TypeOK, Chained, Conn!table, Conn!worker, Conn!history
    <2>8. CASE Conn!RemoteRelease(c)
      BY Conn!TypeOK, Pointed, Chained, <2>8
         DEF Conn!RemoteRelease, Conn!TypeOK, Chained, Conn!table, Conn!worker, Conn!history
    <2>9. CASE Conn!RemoteReleaseSet(c)
      <3>1. indication[c] \in Conn!TcpStates
        BY Conn!TypeOK, <2>9 DEF Conn!TypeOK, Conn!TcpStates, Conn!RemoteReleaseSet
      <3> QED
        BY <2>9, <3>1, SetChained DEF Conn!history, Conn!RemoteReleaseSet
    <2>10. CASE Conn!RemoteAbort(c)
      BY <2>10, DelChained DEF Conn!history, Conn!RemoteAbort
    <2> QED
      BY <1>5, <2>1, <2>2, <2>3, <2>4, <2>5, <2>6, <2>7, <2>8, <2>9, <2>10 DEF Conn!Transport
  <1>6. CASE UNCHANGED Conn!vars
    BY <1>6 DEF Chained, Conn!vars, Conn!table, Conn!history
  <1> QED
    BY <1>1, <1>2, <1>3, <1>4, <1>5, <1>6 DEF Conn!Next, Conn!Unload

\* tdi_disconnect_complete.
LEMMA DisconnectedState ==
  ASSUME Conn!TypeOK, Pointed, NEW c \in ConnObjs, Conn!DisconnectComplete(c), NEW d \in ConnObjs
  PROVE  Conn!get_tcp_conn_state_by_obj(d)' =
           IF d # c THEN Conn!get_tcp_conn_state_by_obj(d)
           ELSE CASE irp[c].state = "FIN_WAIT1" ->
                      IF Conn!get_tcp_conn_state_by_obj(c) # "NONE" THEN "FIN_WAIT2" ELSE "NONE"
                  [] irp[c].state \in {"LAST_ACK", "CLOSED"} -> "NONE"
                  [] OTHER -> Conn!get_tcp_conn_state_by_obj(c)
  <1>1. CASE irp[c].state = "FIN_WAIT1"
    <2>1. Conn!set_tcp_conn_state(c, "FIN_WAIT2") /\ obj' = obj
      BY <1>1 DEF Conn!Disconnected, Conn!DisconnectComplete
    <2> QED
      BY <1>1, <2>1, SetState
  <1>2. CASE irp[c].state \in {"LAST_ACK", "CLOSED"}
    <2>1. Conn!del_tcp_conn(c) /\ obj' = obj
      BY <1>2 DEF Conn!Disconnected, Conn!DisconnectComplete
    <2> QED
      BY <1>2, <2>1, DelConn
  <1>3. CASE irp[c].state \notin {"FIN_WAIT1", "LAST_ACK", "CLOSED"}
    <2>1. UNCHANGED Conn!table /\ obj' = obj
      BY <1>3 DEF Conn!Disconnected, Conn!DisconnectComplete
    <2> QED
      BY <1>3, <2>1 DEF Conn!table, Conn!HasEntry, Conn!get_tcp_conn_state_by_obj
  <1> QED
    BY <1>1, <1>2, <1>3

\* No handler puts a connection into a state of the table that its transport does
\* not know it to be in, or to come to.
LEMMA StepConnections ==
  ASSUME Conn!TypeOK, Pointed, Connections, Exiting, [Conn!Next]_(Conn!vars)
  PROVE  Connections'
  <1>1. CASE Conn!Thread \/ Conn!Tick \/ Conn!TimeGoesBy
    <2>1. CASE Conn!ThreadWakes
      <3>1. \A d \in ConnObjs : Conn!get_tcp_conn_state_by_obj(d)' = Conn!get_tcp_conn_state_by_obj(d)
        BY <2>1 DEF Conn!ThreadWakes, Conn!table, Conn!HasEntry, Conn!get_tcp_conn_state_by_obj
      <3> QED
        BY Connections, <2>1, <3>1, Untouched DEF Connections, Conn!network, Conn!history, Conn!ThreadWakes
    <2>2. CASE Conn!ThreadScans
      <3>1. \A d \in ConnObjs : Conn!get_tcp_conn_state_by_obj(d)' = Conn!get_tcp_conn_state_by_obj(d)
        BY Conn!TypeOK, Pointed, <2>2
           DEF Conn!TypeOK, Pointed, Conn!ThreadScans, Conn!HasEntry, Conn!get_tcp_conn_state_by_obj
      <3> QED
        BY Connections, <2>2, <3>1, Untouched DEF Connections, Conn!network, Conn!history, Conn!ThreadScans
    <2>3. CASE Conn!ThreadLoops
      <3>1. \A d \in ConnObjs : Conn!get_tcp_conn_state_by_obj(d)' = Conn!get_tcp_conn_state_by_obj(d)
        BY <2>3 DEF Conn!ThreadLoops, Conn!table, Conn!HasEntry, Conn!get_tcp_conn_state_by_obj
      <3> QED
        BY Connections, <2>3, <3>1, Untouched DEF Connections, Conn!network, Conn!history, Conn!ThreadLoops
    <2>4. CASE Conn!Tick
      <3>1. \A d \in ConnObjs : Conn!get_tcp_conn_state_by_obj(d)' = Conn!get_tcp_conn_state_by_obj(d)
        BY <2>4 DEF Conn!Tick, Conn!table, Conn!HasEntry, Conn!get_tcp_conn_state_by_obj
      <3> QED
        BY Connections, <2>4, <3>1, Untouched DEF Connections, Conn!network, Conn!history, Conn!Tick
    <2>5. CASE Conn!ThreadSpins
      <3>1. \A d \in ConnObjs : Conn!get_tcp_conn_state_by_obj(d)' = Conn!get_tcp_conn_state_by_obj(d)
        BY <2>5 DEF Conn!ThreadSpins, Conn!table, Conn!HasEntry, Conn!get_tcp_conn_state_by_obj
      <3> QED
        BY Connections, <2>5, <3>1, Untouched DEF Connections, Conn!network, Conn!worker, Conn!history, Conn!ThreadSpins
    <2>6. CASE Conn!TimeGoesBy
      <3>1. \A d \in ConnObjs : Conn!get_tcp_conn_state_by_obj(d)' = Conn!get_tcp_conn_state_by_obj(d)
        BY <2>6 DEF Conn!TimeGoesBy, Conn!table, Conn!HasEntry, Conn!get_tcp_conn_state_by_obj
      <3> QED
        BY Connections, <2>6, <3>1, Untouched DEF Connections, Conn!network, Conn!worker, Conn!history, Conn!TimeGoesBy
    <2> QED
      BY <1>1, <2>1, <2>2, <2>3, <2>4, <2>5, <2>6 DEF Conn!Thread
  <1>2. CASE Conn!UnloadBegin \/ Conn!ConnStateFree \/ Conn!UnloadDone
    <2>1. CASE Conn!UnloadBegin
      <3>1. \A d \in ConnObjs : Conn!get_tcp_conn_state_by_obj(d)' = Conn!get_tcp_conn_state_by_obj(d)
        BY <2>1 DEF Conn!UnloadBegin, Conn!table, Conn!HasEntry, Conn!get_tcp_conn_state_by_obj
      <3> QED
        BY Connections, <2>1, <3>1 DEF Connections, Consistent, Conn!network, Conn!history, Conn!UnloadBegin
    <2>2. CASE Conn!ConnStateFree
      <3>1. \A d \in ConnObjs : Conn!get_tcp_conn_state_by_obj(d)' = Conn!get_tcp_conn_state_by_obj(d)
        BY <2>2 DEF Conn!ConnStateFree, Conn!table, Conn!HasEntry, Conn!get_tcp_conn_state_by_obj
      <3> QED
        BY Connections, <2>2, <3>1 DEF Connections, Consistent, Conn!network, Conn!history, Conn!ConnStateFree
    <2>3. CASE Conn!UnloadDone
      <3>1. \A d \in ConnObjs : Conn!get_tcp_conn_state_by_obj(d)' = Conn!get_tcp_conn_state_by_obj(d)
        BY <2>3 DEF Conn!UnloadDone, Conn!table, Conn!HasEntry, Conn!get_tcp_conn_state_by_obj
      <3> QED
        BY Connections, <2>3, <3>1 DEF Connections, Consistent, Conn!network, Conn!history, Conn!UnloadDone
    <2> QED
      BY <1>2, <2>1, <2>2, <2>3
  <1>3. ASSUME NEW c \in ConnObjs, Conn!OtFree(c) PROVE Connections'
    <2>1. CASE Conn!OtFree(c)
      <3>1. \A d \in ConnObjs : Conn!get_tcp_conn_state_by_obj(d)' =
                 IF d = c THEN "NONE" ELSE Conn!get_tcp_conn_state_by_obj(d)
        BY Conn!TypeOK, Pointed, <2>1, DelConn DEF Conn!OtFree, Conn!TypeOK
      <3>2. Consistent(c)'
        <4> Consistent(c)
          BY Connections DEF Connections
        <4> QED
          BY Conn!TypeOK, <2>1, <3>1, Exiting
             DEF Consistent, Conn!worker, Conn!history, Conn!network, Conn!TypeOK, OpenSays, Conn!Established, Conn!Idle, Conn!Request,
                 Exiting, Conn!OtFree
      <3>3. ASSUME NEW d \in ConnObjs \ {c} PROVE Consistent(d)'
        BY Conn!TypeOK, Connections, <2>1, <3>1, <3>3, Untouched
           DEF Conn!TypeOK, Connections, Conn!worker, Conn!history, Conn!network, Conn!Released, Conn!OtFree
      <3> QED
        BY <3>2, <3>3 DEF Connections
    <2> QED
      BY <1>3, <2>1
  <1>4. ASSUME NEW c \in ConnObjs, Conn!Client(c) PROVE Connections'
    <2>1. CASE Conn!Create(c)
      <3>1. \A d \in ConnObjs : Conn!get_tcp_conn_state_by_obj(d)' =
                 IF d = c THEN "NONE" ELSE Conn!get_tcp_conn_state_by_obj(d)
        BY Conn!TypeOK, Pointed, <2>1, ConnConstants
           DEF Conn!Create, Conn!TypeOK, Pointed, Conn!table, Conn!HasEntry, Conn!get_tcp_conn_state_by_obj
      <3>2. Consistent(c)'
        <4> Consistent(c)
          BY Connections DEF Connections
        <4> QED
          BY Conn!TypeOK, <2>1, <3>1
             DEF Consistent, Conn!worker, Conn!history, Conn!network, Conn!TypeOK, OpenSays, Conn!Established, Conn!Idle, Conn!Request,
                 Conn!Create
      <3>3. ASSUME NEW d \in ConnObjs \ {c} PROVE Consistent(d)'
        BY Conn!TypeOK, Connections, <2>1, <3>1, <3>3, Untouched
           DEF Conn!TypeOK, Connections, Conn!worker, Conn!history, Conn!network, Conn!Released, Conn!Create
      <3> QED
        BY <3>2, <3>3 DEF Connections
    <2>2. CASE Conn!Cleanup(c)
      <3>1. \A d \in ConnObjs : Conn!get_tcp_conn_state_by_obj(d)' =
                 IF d = c THEN "NONE" ELSE Conn!get_tcp_conn_state_by_obj(d)
        BY Conn!TypeOK, Pointed, <2>2, DelConn DEF Conn!Cleanup, Conn!TypeOK
      <3>2. Consistent(c)'
        <4> Consistent(c)
          BY Connections DEF Connections
        <4> QED
          BY Conn!TypeOK, <2>2, <3>1
             DEF Consistent, Conn!worker, Conn!history, Conn!network, Conn!TypeOK, OpenSays, Conn!Established, Conn!Idle, Conn!Request,
                 Conn!Cleanup
      <3>3. ASSUME NEW d \in ConnObjs \ {c} PROVE Consistent(d)'
        BY Conn!TypeOK, Connections, <2>2, <3>1, <3>3, Untouched
           DEF Conn!TypeOK, Connections, Conn!worker, Conn!history, Conn!network, Conn!Released, Conn!Cleanup
      <3> QED
        BY <3>2, <3>3 DEF Connections
    <2>3. CASE Conn!Connect(c)
      <3>1. \A d \in ConnObjs : Conn!get_tcp_conn_state_by_obj(d)' =
                 IF d = c THEN "SYN_SENT" ELSE Conn!get_tcp_conn_state_by_obj(d)
        BY Conn!TypeOK, Pointed, <2>3, AddConn DEF Conn!Connect, Conn!Available
      <3>2. Consistent(c)'
        <4> Consistent(c)
          BY Connections DEF Connections
        <4> QED
          BY Conn!TypeOK, <2>3, <3>1
             DEF Consistent, Conn!worker, Conn!history, Conn!network, Conn!TypeOK, OpenSays, Conn!Established, Conn!Idle, Conn!Request,
                 Conn!Available, Conn!Connect
      <3>3. ASSUME NEW d \in ConnObjs \ {c} PROVE Consistent(d)'
        BY Conn!TypeOK, Connections, <2>3, <3>1, <3>3, Untouched
           DEF Conn!TypeOK, Connections, Conn!worker, Conn!history, Conn!network, Conn!Released, Conn!Connect
      <3> QED
        BY <3>2, <3>3 DEF Connections
    <2>4. CASE Conn!Release(c)
      <3>1. \A d \in ConnObjs : Conn!get_tcp_conn_state_by_obj(d)' =
                 IF d = c THEN Conn!get_tcp_conn_state_by_obj(c) ELSE Conn!get_tcp_conn_state_by_obj(d)
        BY Conn!TypeOK, Pointed, <2>4, Pointed
           DEF Conn!Release, Conn!table, Conn!HasEntry, Conn!get_tcp_conn_state_by_obj
      <3>2. Consistent(c)'
        <4> DEFINE s == Conn!get_tcp_conn_state_by_obj(c)
        <4>1. Consistent(c)
          BY Connections DEF Connections
        <4>2. PICK goal \in Conn!Next_state(s) : irp' = [irp EXCEPT ![c] = Conn!Request("release", goal)]
          BY <2>4 DEF Conn!Release
        <4>3. /\ goal \in Conn!TcpStates
              /\ s \in Conn!Established => goal = "FIN_WAIT1"
              /\ s = "CLOSE_WAIT" => goal = "LAST_ACK"
          BY NextStates DEF Conn!Next_state, Conn!Established
        <4> QED
          BY Conn!TypeOK, <2>4, <3>1, <4>1, <4>2, <4>3
             DEF Conn!TypeOK, Consistent, OpenSays, Conn!Established, Conn!Idle, Conn!Request, Conn!TcpStates, Conn!worker, Conn!history,
                 Conn!network, Conn!Disconnecting, Conn!Release
      <3>3. ASSUME NEW d \in ConnObjs \ {c} PROVE Consistent(d)'
        <4>1. again'[d] <=> again[d]
          BY Conn!TypeOK, <2>4, <3>3, AgainOthers DEF Conn!Release
        <4> QED
          BY Conn!TypeOK, Connections, <2>4, <3>1, <3>3, <4>1, Untouched
             DEF Conn!TypeOK, Connections, Conn!worker, Conn!network, Conn!Release
      <3> QED
        BY <3>2, <3>3 DEF Connections
    <2>5. CASE Conn!ReleaseSet(c)
      <3>1. \A d \in ConnObjs : Conn!get_tcp_conn_state_by_obj(d)' =
                 IF d # c THEN Conn!get_tcp_conn_state_by_obj(d)
                 ELSE IF Conn!get_tcp_conn_state_by_obj(c) # "NONE" THEN irp[c].state ELSE "NONE"
        BY Conn!TypeOK, Pointed, <2>5, SetState DEF Conn!ReleaseSet
      <3>2. Consistent(c)'
        <4> Consistent(c)
          BY Connections DEF Connections
        <4> QED
          BY Conn!TypeOK, <2>5, <3>1
             DEF Consistent, Conn!worker, Conn!history, Conn!network, Conn!TypeOK, OpenSays, Conn!Established, Conn!Idle, Conn!Request,
                 Conn!ReleaseSet
      <3>3. ASSUME NEW d \in ConnObjs \ {c} PROVE Consistent(d)'
        BY Conn!TypeOK, Connections, <2>5, <3>1, <3>3, Untouched
           DEF Conn!TypeOK, Connections, Conn!worker, Conn!history, Conn!network, Conn!Released, Conn!ReleaseSet
      <3> QED
        BY <3>2, <3>3 DEF Connections
    <2>6. CASE Conn!Abort(c)
      <3>1. \A d \in ConnObjs : Conn!get_tcp_conn_state_by_obj(d)' =
                 IF d # c THEN Conn!get_tcp_conn_state_by_obj(d)
                 ELSE IF Conn!get_tcp_conn_state_by_obj(c) # "NONE" THEN "CLOSED" ELSE "NONE"
        BY Conn!TypeOK, Pointed, <2>6, SetState DEF Conn!Abort
      <3>2. Consistent(c)'
        <4> Consistent(c)
          BY Connections DEF Connections
        <4> QED
          BY Conn!TypeOK, <2>6, <3>1
             DEF Consistent, Conn!worker, Conn!history, Conn!network, Conn!TypeOK, OpenSays, Conn!Established, Conn!Idle, Conn!Request,
                 Conn!Disconnecting, Conn!Abort
      <3>3. ASSUME NEW d \in ConnObjs \ {c} PROVE Consistent(d)'
        <4>1. again'[d] <=> again[d]
          BY Conn!TypeOK, <2>6, <3>3, AgainOthers DEF Conn!Abort
        <4> QED
          BY Conn!TypeOK, Connections, <2>6, <3>1, <3>3, <4>1, Untouched
             DEF Conn!TypeOK, Connections, Conn!worker, Conn!network, Conn!Abort
      <3> QED
        BY <3>2, <3>3 DEF Connections
    <2> QED
      BY <1>4, <2>1, <2>2, <2>3, <2>4, <2>5, <2>6 DEF Conn!Client
  <1>5. ASSUME NEW c \in ConnObjs, Conn!Transport(c) PROVE Connections'
    <2>1. CASE Conn!Accept(c)
      <3>1. \A d \in ConnObjs : Conn!get_tcp_conn_state_by_obj(d)' =
                 IF d = c THEN "SYN_RCVD" ELSE Conn!get_tcp_conn_state_by_obj(d)
        BY Conn!TypeOK, Pointed, <2>1, AddConn DEF Conn!Accept, Conn!Available
      <3>2. Consistent(c)'
        <4> Consistent(c)
          BY Connections DEF Connections
        <4> QED
          BY Conn!TypeOK, <2>1, <3>1
             DEF Consistent, Conn!worker, Conn!history, Conn!network, Conn!TypeOK, OpenSays, Conn!Established, Conn!Idle, Conn!Request,
                 Conn!Available, Conn!Accept
      <3>3. ASSUME NEW d \in ConnObjs \ {c} PROVE Consistent(d)'
        BY Conn!TypeOK, Connections, <2>1, <3>1, <3>3, Untouched
           DEF Conn!TypeOK, Connections, Conn!worker, Conn!history, Conn!network, Conn!Released, Conn!Accept
      <3> QED
        BY <3>2, <3>3 DEF Connections
    <2>2. CASE Conn!AcceptReused(c)
      <3>1. \A d \in ConnObjs : Conn!get_tcp_conn_state_by_obj(d)' =
                 IF d = c THEN "NONE" ELSE Conn!get_tcp_conn_state_by_obj(d)
        BY Conn!TypeOK, Pointed, <2>2, ConnConstants
           DEF Conn!AcceptReused, Conn!TypeOK, Pointed, Conn!HasEntry, Conn!get_tcp_conn_state_by_obj
      <3>2. Consistent(c)'
        <4> Consistent(c)
          BY Connections DEF Connections
        <4> QED
          BY Conn!TypeOK, <2>2, <3>1
             DEF Consistent, Conn!worker, Conn!history, Conn!network, Conn!TypeOK, OpenSays, Conn!Established, Conn!Idle, Conn!Request,
                 Conn!Available, Conn!AcceptReused
      <3>3. ASSUME NEW d \in ConnObjs \ {c} PROVE Consistent(d)'
        BY Conn!TypeOK, Connections, <2>2, <3>1, <3>3, Untouched
           DEF Conn!TypeOK, Connections, Conn!worker, Conn!history, Conn!network, Conn!Released, Conn!AcceptReused
      <3> QED
        BY <3>2, <3>3 DEF Connections
    <2>3. CASE Conn!TransportOpens(c)
      <3>1. \A d \in ConnObjs : Conn!get_tcp_conn_state_by_obj(d)' =
                 IF d = c THEN Conn!get_tcp_conn_state_by_obj(c) ELSE Conn!get_tcp_conn_state_by_obj(d)
        BY Conn!TypeOK, Pointed, <2>3, Pointed
           DEF Conn!TransportOpens, Conn!table, Conn!HasEntry, Conn!get_tcp_conn_state_by_obj
      <3>2. Consistent(c)'
        <4> Consistent(c)
          BY Connections DEF Connections
        <4> QED
          BY Conn!TypeOK, <2>3, <3>1
             DEF Consistent, Conn!worker, Conn!history, Conn!network, Conn!TypeOK, OpenSays, Conn!Established, Conn!Idle, Conn!Request,
                 Conn!Released, Conn!Indicating, Conn!TransportOpens
      <3>3. ASSUME NEW d \in ConnObjs \ {c} PROVE Consistent(d)'
        BY Conn!TypeOK, Connections, <2>3, <3>1, <3>3, Untouched
           DEF Conn!TypeOK, Connections, Conn!worker, Conn!history, Conn!network, Conn!Released, Conn!TransportOpens
      <3> QED
        BY <3>2, <3>3 DEF Connections
    <2>4. CASE Conn!OpenComplete(c)
      <3>1. \A d \in ConnObjs : Conn!get_tcp_conn_state_by_obj(d)' =
                 IF d # c THEN Conn!get_tcp_conn_state_by_obj(d)
                 ELSE IF Conn!get_tcp_conn_state_by_obj(c) # "NONE" THEN irp[c].state ELSE "NONE"
        BY Conn!TypeOK, Pointed, <2>4, SetState DEF Conn!OpenComplete
      <3>2. Consistent(c)'
        <4> Consistent(c)
          BY Connections DEF Connections
        <4> QED
          BY Conn!TypeOK, <2>4, <3>1
             DEF Consistent, Conn!worker, Conn!history, Conn!network, Conn!TypeOK, OpenSays, Conn!Established, Conn!Idle, Conn!Request,
                 Conn!OpenComplete
      <3>3. ASSUME NEW d \in ConnObjs \ {c} PROVE Consistent(d)'
        BY Conn!TypeOK, Connections, <2>4, <3>1, <3>3, Untouched
           DEF Conn!TypeOK, Connections, Conn!worker, Conn!history, Conn!network, Conn!Released, Conn!OpenComplete
      <3> QED
        BY <3>2, <3>3 DEF Connections
    <2>5. CASE Conn!OpenFails(c)
      <3>1. \A d \in ConnObjs : Conn!get_tcp_conn_state_by_obj(d)' =
                 IF d = c THEN "NONE" ELSE Conn!get_tcp_conn_state_by_obj(d)
        BY Conn!TypeOK, Pointed, <2>5, DelConn DEF Conn!OpenFails
      <3>2. Consistent(c)'
        <4> Consistent(c)
          BY Connections DEF Connections
        <4> QED
          BY Conn!TypeOK, <2>5, <3>1
             DEF Consistent, Conn!worker, Conn!history, Conn!network, Conn!TypeOK, OpenSays, Conn!Established, Conn!Idle, Conn!Request,
                 Conn!OpenFails
      <3>3. ASSUME NEW d \in ConnObjs \ {c} PROVE Consistent(d)'
        BY Conn!TypeOK, Connections, <2>5, <3>1, <3>3, Untouched
           DEF Conn!TypeOK, Connections, Conn!worker, Conn!history, Conn!network, Conn!Released, Conn!OpenFails
      <3> QED
        BY <3>2, <3>3 DEF Connections
    <2>6. CASE Conn!DisconnectComplete(c)
      <3>1. \A d \in ConnObjs \ {c} : Conn!get_tcp_conn_state_by_obj(d)' = Conn!get_tcp_conn_state_by_obj(d)
        BY Conn!TypeOK, Pointed, <2>6, DisconnectedState
      <3>2. Conn!get_tcp_conn_state_by_obj(c)' =
                 CASE irp[c].state = "FIN_WAIT1" ->
                     IF Conn!get_tcp_conn_state_by_obj(c) # "NONE" THEN "FIN_WAIT2" ELSE "NONE"
                [] irp[c].state \in {"LAST_ACK", "CLOSED"} -> "NONE"
                [] OTHER -> Conn!get_tcp_conn_state_by_obj(c)
        BY Conn!TypeOK, Pointed, <2>6, DisconnectedState
      <3>3. Consistent(c)'
        <4> Consistent(c)
          BY Connections DEF Connections
        <4> QED
          BY Conn!TypeOK, <2>6, <3>2
             DEF Consistent, OpenSays, Conn!TypeOK, Conn!Established, Conn!Idle, Conn!Released, Conn!worker, Conn!history,
                 Conn!Disconnected, Conn!DisconnectComplete
      <3>4. ASSUME NEW d \in ConnObjs \ {c} PROVE Consistent(d)'
        BY Conn!TypeOK, Connections, <2>6, <3>1, <3>4, Untouched
           DEF Conn!TypeOK, Connections, Conn!worker, Conn!history, Conn!Released, Conn!Disconnected, Conn!DisconnectComplete
      <3> QED
        BY <3>3, <3>4 DEF Connections
    <2>7. CASE Conn!DisconnectFails(c)
      <3>1. \A d \in ConnObjs : Conn!get_tcp_conn_state_by_obj(d)' =
                 IF d = c THEN Conn!get_tcp_conn_state_by_obj(c) ELSE Conn!get_tcp_conn_state_by_obj(d)
        BY Conn!TypeOK, Pointed, <2>7, Pointed
           DEF Conn!DisconnectFails, Conn!table, Conn!HasEntry, Conn!get_tcp_conn_state_by_obj
      <3>2. Consistent(c)'
        <4> Consistent(c)
          BY Connections DEF Connections
        <4> QED
          BY Conn!TypeOK, <2>7, <3>1
             DEF Consistent, Conn!worker, Conn!history, Conn!network, Conn!TypeOK, OpenSays, Conn!Established, Conn!Idle, Conn!Request,
                 Conn!Released, Conn!Indicating, Conn!DisconnectFails
      <3>3. ASSUME NEW d \in ConnObjs \ {c} PROVE Consistent(d)'
        BY Conn!TypeOK, Connections, <2>7, <3>1, <3>3, Untouched
           DEF Conn!TypeOK, Connections, Conn!worker, Conn!history, Conn!network, Conn!Released, Conn!DisconnectFails
      <3> QED
        BY <3>2, <3>3 DEF Connections
    <2>8. CASE Conn!RemoteRelease(c)
      <3>1. \A d \in ConnObjs : Conn!get_tcp_conn_state_by_obj(d)' =
                 IF d = c THEN Conn!get_tcp_conn_state_by_obj(c) ELSE Conn!get_tcp_conn_state_by_obj(d)
        BY Conn!TypeOK, Pointed, <2>8, Pointed
           DEF Conn!RemoteRelease, Conn!table, Conn!HasEntry, Conn!get_tcp_conn_state_by_obj
      <3>2. Consistent(c)'
        <4> DEFINE s == Conn!get_tcp_conn_state_by_obj(c)
        <4>1. Consistent(c)
          BY Connections DEF Connections
        <4>2. /\ obj[c] /\ unload = "no" /\ tcp[c] = "open" /\ indication[c] = "NONE" /\ "remote" \notin fins[c]
              /\ ~again[c] => OpenSays(irp[c].at, irp[c].state, "NONE", fins[c], s)
          BY <2>8, <4>1 DEF Consistent, Conn!RemoteRelease, Conn!Indicating
        <4>3. fins[c] \in SUBSET {"local", "remote"}
          BY Conn!TypeOK DEF Conn!TypeOK
        <4>4. indication'[c] =
                   IF s \in Conn!Established THEN "CLOSE_WAIT" ELSE IF s = "FIN_WAIT2" THEN "TIME_WAIT" ELSE "NONE"
          BY Conn!TypeOK, <2>8 DEF Conn!TypeOK, Conn!RemoteRelease, Conn!Established
        <4>5. CASE fins[c] = {"local"}
          <5>1. tcp'[c] = "none" /\ fins'[c] = {}
            BY Conn!TypeOK, <2>8, <4>5 DEF Conn!TypeOK, Conn!RemoteRelease, Conn!Released
          <5> QED
            BY <2>8, <3>1, <4>1, <4>2, <4>4, <4>5, <5>1
               DEF Consistent, OpenSays, Conn!Established, Conn!history, Conn!RemoteRelease
        <4>6. CASE fins[c] = {}
          <5>1. tcp'[c] = "open" /\ fins'[c] = {"remote"}
            <6>1. fins[c] \cup {"remote"} = {"remote"} /\ {"remote"} # {"local", "remote"}
              BY <4>6
            <6> QED
              BY Conn!TypeOK, <2>8, <6>1 DEF Conn!TypeOK, Conn!RemoteRelease, Conn!Released
          <5>2. ~again[c] => OpenSays(irp[c].at, irp[c].state, indication'[c], {"remote"}, s)
            <6>1. {} # {"remote"} /\ {} # {"local"} /\ "local" \notin {"remote"} /\ {"remote"} # {"local", "remote"}
              OBVIOUS
            <6>2. ~again[c] => OpenSays(irp[c].at, irp[c].state, "NONE", {}, s)
              BY <4>2, <4>6
            <6> QED
              BY Conn!TypeOK, <4>4, <6>1, <6>2 DEF Conn!TypeOK, OpenSays, Conn!Established
          <5>3. irp[c].at = "open" => indication'[c] = "NONE"
            <6>1. irp[c].at = "open" => ~again[c]
              BY <4>1 DEF Consistent
            <6> QED
              BY <4>2, <4>4, <6>1 DEF OpenSays, Conn!Established
          <5>4. UNCHANGED <<obj, irp, unload, again>> /\ Conn!get_tcp_conn_state_by_obj(c)' = s
            BY <2>8, <3>1 DEF Conn!RemoteRelease, Conn!worker, Conn!history
          <5> QED
            BY <4>1, <4>2, <5>1, <5>2, <5>3, <5>4 DEF Consistent
        <4> QED
          BY <4>2, <4>3, <4>5, <4>6
      <3>3. ASSUME NEW d \in ConnObjs \ {c} PROVE Consistent(d)'
        BY Conn!TypeOK, Connections, <2>8, <3>1, <3>3, Untouched
           DEF Conn!TypeOK, Connections, Conn!worker, Conn!history, Conn!network, Conn!Released, Conn!RemoteRelease
      <3> QED
        BY <3>2, <3>3 DEF Connections
    <2>9. CASE Conn!RemoteReleaseSet(c)
      <3>1. \A d \in ConnObjs : Conn!get_tcp_conn_state_by_obj(d)' =
                 IF d # c THEN Conn!get_tcp_conn_state_by_obj(d)
                 ELSE IF Conn!get_tcp_conn_state_by_obj(c) # "NONE" THEN indication[c] ELSE "NONE"
        BY Conn!TypeOK, Pointed, <2>9, SetState DEF Conn!RemoteReleaseSet
      <3>2. Consistent(c)'
        <4> Consistent(c)
          BY Connections DEF Connections
        <4> QED
          BY Conn!TypeOK, <2>9, <3>1
             DEF Consistent, Conn!worker, Conn!history, Conn!network, Conn!TypeOK, OpenSays, Conn!Established, Conn!Idle, Conn!Request,
                 Conn!RemoteReleaseSet
      <3>3. ASSUME NEW d \in ConnObjs \ {c} PROVE Consistent(d)'
        BY Conn!TypeOK, Connections, <2>9, <3>1, <3>3, Untouched
           DEF Conn!TypeOK, Connections, Conn!worker, Conn!history, Conn!network, Conn!Released, Conn!RemoteReleaseSet
      <3> QED
        BY <3>2, <3>3 DEF Connections
    <2>10. CASE Conn!RemoteAbort(c)
      <3>1. \A d \in ConnObjs : Conn!get_tcp_conn_state_by_obj(d)' =
                 IF d = c THEN "NONE" ELSE Conn!get_tcp_conn_state_by_obj(d)
        BY Conn!TypeOK, Pointed, <2>10, DelConn DEF Conn!RemoteAbort
      <3>2. Consistent(c)'
        <4> Consistent(c)
          BY Connections DEF Connections
        <4> QED
          BY Conn!TypeOK, <2>10, <3>1
             DEF Consistent, Conn!worker, Conn!history, Conn!network, Conn!TypeOK, OpenSays, Conn!Established, Conn!Idle, Conn!Request,
                 Conn!Indicating, Conn!RemoteAbort
      <3>3. ASSUME NEW d \in ConnObjs \ {c} PROVE Consistent(d)'
        BY Conn!TypeOK, Connections, <2>10, <3>1, <3>3, Untouched
           DEF Conn!TypeOK, Connections, Conn!worker, Conn!history, Conn!network, Conn!Released, Conn!RemoteAbort
      <3> QED
        BY <3>2, <3>3 DEF Connections
    <2> QED
      BY <1>5, <2>1, <2>2, <2>3, <2>4, <2>5, <2>6, <2>7, <2>8, <2>9, <2>10 DEF Conn!Transport
  <1>6. CASE UNCHANGED Conn!vars
    <2>1. \A d \in ConnObjs : Conn!get_tcp_conn_state_by_obj(d)' = Conn!get_tcp_conn_state_by_obj(d)
      BY <1>6 DEF Conn!vars, Conn!table, Conn!HasEntry, Conn!get_tcp_conn_state_by_obj
    <2> QED
      BY <1>6, <2>1, Untouched DEF Connections, Conn!vars, Conn!network, Conn!worker, Conn!history
  <1> QED
    BY <1>1, <1>2, <1>3, <1>4, <1>5, <1>6 DEF Conn!Next, Conn!Unload

\* A connection loses its entry to the chain, and the thread will wake up.
LEMMA DelWaiting ==
  ASSUME Conn!TypeOK, Waiting, NEW c \in ConnObjs, Conn!del_tcp_conn(c), thread' = thread, timeout' = timeout,
         reused' <=> reused
  PROVE  Waiting'
  <1>1. CASE Conn!HasEntry(c)
    <2>1. conn_entry[c] \in Entries
      BY <1>1 DEF Conn!TypeOK, Conn!HasEntry
    <2> QED
      BY <1>1, <2>1, ConnConstants DEF Conn!TypeOK, Waiting, Conn!del_tcp_conn, Conn!del_tcp_conn_obj
  <1>2. CASE ~Conn!HasEntry(c)
    BY <1>2 DEF Waiting, Conn!del_tcp_conn, Conn!table
  <1> QED
    BY <1>1, <1>2

\* The thread wakes up in time.
LEMMA StepWaiting ==
  ASSUME Conn!TypeOK, Pointed, Chained, Waiting, [Conn!Next]_(Conn!vars)
  PROVE  Waiting'
  <1>1. CASE Conn!Thread \/ Conn!Tick \/ Conn!TimeGoesBy
    <2>1. CASE Conn!ThreadWakes
      BY Conn!TypeOK, Waiting, <2>1
         DEF Conn!ThreadWakes, Conn!TypeOK, Waiting, Conn!table, Conn!worker, Conn!history
    <2>2. CASE Conn!ThreadScans
      <3> DEFINE chain == {e \in g_conn_to_del : ~Conn!Expired(e)}
                 left  == {MAX_CLOSED_TIME - age[e] : e \in chain}
      <3>1. g_conn_to_del' = chain /\ \A e \in chain : age'[e] = age[e]
        BY Conn!TypeOK, <2>2 DEF Conn!TypeOK, Conn!ThreadScans
      <3>2. \A e \in chain : age[e] \in Nat /\ age[e] < MAX_CLOSED_TIME
        BY Conn!TypeOK, ConnConstants DEF Conn!TypeOK, Conn!Expired
      <3>3. ASSUME NEW e \in chain PROVE timeout' \in Nat /\ timeout' <= MAX_CLOSED_TIME
        <4>1. left # {}
          OBVIOUS
        <4>2. PICK x \in chain : timeout' = MAX_CLOSED_TIME - age[x]
          BY <2>2, <4>1 DEF Conn!ThreadScans
        <4> QED
          BY <4>2, <3>2, ConnConstants
      <3>4. \A e \in chain : age[e] + timeout' < 2 * MAX_CLOSED_TIME /\ age[e] < 2 * MAX_CLOSED_TIME
        BY <3>2, <3>3, ConnConstants
      <3> HIDE DEF chain
      <3>5. thread' = "test"
        BY <2>2 DEF Conn!ThreadScans
      <3> QED
        BY <3>1, <3>3, <3>4, <3>5 DEF Waiting
    <2>3. CASE Conn!ThreadLoops
      BY Waiting, <2>3 DEF Waiting, Conn!table, Conn!history, Conn!ThreadLoops
    <2>4. CASE Conn!Tick
      <3>0. thread' = "wait" /\ (reused' <=> reused)
        BY <2>4 DEF Conn!Tick, Conn!history
      <3> SUFFICES ASSUME ~reused PROVE Waiting'
        BY <3>0 DEF Waiting
      <3>1. \A e \in g_conn_to_del : timeout <= MAX_CLOSED_TIME /\ age[e] + timeout < 2 * MAX_CLOSED_TIME
        BY Waiting, <2>4 DEF Waiting, Conn!Tick
      <3>2. timeout \in Nat /\ timeout > 0 /\ (g_conn_to_del # {} => timeout # Conn!Forever /\ timeout' = timeout - 1)
        BY Conn!TypeOK, ConnConstants, <2>4, <3>1 DEF Conn!TypeOK, Conn!Tick, Conn!Forever
      <3>3. ASSUME NEW e \in g_conn_to_del PROVE age[e] \in Nat /\ age'[e] \in Nat /\ age'[e] <= age[e] + 1
        BY Conn!TypeOK, ConnConstants, <2>4 DEF Conn!TypeOK, Conn!Tick
      <3>4. \A e \in g_conn_to_del : /\ timeout' <= MAX_CLOSED_TIME
                                       /\ age'[e] + timeout' < 2 * MAX_CLOSED_TIME
                                       /\ age'[e] < 2 * MAX_CLOSED_TIME
        BY <3>1, <3>2, <3>3, ConnConstants
      <3> QED
        BY <2>4, <3>0, <3>4 DEF Waiting, Conn!Tick
    <2>5. CASE Conn!ThreadSpins
      BY Waiting, <2>5 DEF Waiting, Conn!ThreadSpins, Conn!table, Conn!history
    <2>6. CASE Conn!TimeGoesBy
      <3>1. reused /\ reused' /\ circular'
        BY <2>6, Chained, Waiting, Zenon DEF Conn!TimeGoesBy, Chained, Waiting, Conn!history
      <3> QED
        BY <3>1 DEF Waiting
    <2> QED
      BY <1>1, <2>1, <2>2, <2>3, <2>4, <2>5, <2>6 DEF Conn!Thread
  <1>2. CASE Conn!UnloadBegin \/ Conn!ConnStateFree \/ Conn!UnloadDone
    <2>1. CASE Conn!UnloadBegin
      BY Conn!TypeOK, Waiting, <2>1
         DEF Conn!UnloadBegin, Conn!TypeOK, Waiting, Conn!table, Conn!worker, Conn!history
    <2>2. CASE Conn!ConnStateFree
      BY Conn!TypeOK, Waiting, <2>2
         DEF Conn!ConnStateFree, Conn!TypeOK, Waiting, Conn!table, Conn!worker, Conn!history
    <2>3. CASE Conn!UnloadDone
      BY Conn!TypeOK, Waiting, <2>3
         DEF Conn!UnloadDone, Conn!TypeOK, Waiting, Conn!table, Conn!worker, Conn!history
    <2> QED
      BY <1>2, <2>1, <2>2, <2>3
  <1>3. ASSUME NEW c \in ConnObjs, Conn!OtFree(c) PROVE Waiting'
    <2>1. CASE Conn!OtFree(c)
      BY Conn!TypeOK, Waiting, <2>1, DelWaiting DEF Conn!worker, Conn!history, Conn!OtFree
    <2> QED
      BY <1>3, <2>1
  <1>4. ASSUME NEW c \in ConnObjs, Conn!Client(c) PROVE Waiting'
    <2>1. CASE Conn!Create(c)
      BY Conn!TypeOK, Waiting, <2>1
         DEF Conn!Create, Conn!TypeOK, Waiting, Conn!table, Conn!worker, Conn!history
    <2>2. CASE Conn!Cleanup(c)
      BY Conn!TypeOK, Waiting, <2>2, DelWaiting DEF Conn!worker, Conn!history, Conn!Cleanup
    <2>3. CASE Conn!Connect(c)
      BY Waiting, <2>3 DEF Waiting, Conn!add_tcp_conn, Conn!worker, Conn!history, Conn!Connect
    <2>4. CASE Conn!Release(c)
      BY Conn!TypeOK, Waiting, <2>4
         DEF Conn!Release, Conn!TypeOK, Waiting, Conn!table, Conn!worker, Conn!history
    <2>5. CASE Conn!ReleaseSet(c)
      BY Waiting, <2>5 DEF Waiting, Conn!set_tcp_conn_state, Conn!worker, Conn!history, Conn!ReleaseSet
    <2>6. CASE Conn!Abort(c)
      BY Waiting, <2>6 DEF Waiting, Conn!set_tcp_conn_state, Conn!worker, Conn!history, Conn!Abort
    <2> QED
      BY <1>4, <2>1, <2>2, <2>3, <2>4, <2>5, <2>6 DEF Conn!Client
  <1>5. ASSUME NEW c \in ConnObjs, Conn!Transport(c) PROVE Waiting'
    <2>1. CASE Conn!Accept(c)
      BY Waiting, <2>1 DEF Waiting, Conn!add_tcp_conn, Conn!worker, Conn!history, Conn!Accept
    <2>2. CASE Conn!AcceptReused(c)
      <3> conn_entry[c] \in Entries
        BY Conn!TypeOK, <2>2 DEF Conn!TypeOK, Conn!AcceptReused, Conn!HasEntry
      <3> QED
        BY Conn!TypeOK, ConnConstants, <2>2 DEF Conn!TypeOK, Waiting, Conn!AcceptReused
    <2>3. CASE Conn!TransportOpens(c)
      BY Conn!TypeOK, Waiting, <2>3
         DEF Conn!TransportOpens, Conn!TypeOK, Waiting, Conn!table, Conn!worker, Conn!history
    <2>4. CASE Conn!OpenComplete(c)
      BY Waiting, <2>4 DEF Waiting, Conn!set_tcp_conn_state, Conn!worker, Conn!history, Conn!OpenComplete
    <2>5. CASE Conn!OpenFails(c)
      BY Conn!TypeOK, Waiting, <2>5, DelWaiting DEF Conn!worker, Conn!history, Conn!OpenFails
    <2>6. CASE Conn!DisconnectComplete(c)
      <3>1. CASE irp[c].state \in {"LAST_ACK", "CLOSED"}
        BY Conn!TypeOK, Waiting, <2>6, <3>1, DelWaiting DEF Conn!worker, Conn!history, Conn!Disconnected, Conn!DisconnectComplete
      <3>2. CASE irp[c].state \notin {"LAST_ACK", "CLOSED"}
        BY Waiting, <2>6, <3>2
           DEF Waiting, Conn!set_tcp_conn_state, Conn!table, Conn!worker, Conn!history, Conn!Disconnected, Conn!DisconnectComplete
      <3> QED
        BY <3>1, <3>2
    <2>7. CASE Conn!DisconnectFails(c)
      BY Conn!TypeOK, Waiting, <2>7
         DEF Conn!DisconnectFails, Conn!TypeOK, Waiting, Conn!table, Conn!worker, Conn!history
    <2>8. CASE Conn!RemoteRelease(c)
      BY Conn!TypeOK, Waiting, <2>8
         DEF Conn!RemoteRelease, Conn!TypeOK, Waiting, Conn!table, Conn!worker, Conn!history
    <2>9. CASE Conn!RemoteReleaseSet(c)
      BY Waiting, <2>9 DEF Waiting, Conn!set_tcp_conn_state, Conn!worker, Conn!history, Conn!RemoteReleaseSet
    <2>10. CASE Conn!RemoteAbort(c)
      BY Conn!TypeOK, Waiting, <2>10, DelWaiting DEF Conn!worker, Conn!history, Conn!RemoteAbort
    <2> QED
      BY <1>5, <2>1, <2>2, <2>3, <2>4, <2>5, <2>6, <2>7, <2>8, <2>9, <2>10 DEF Conn!Transport
  <1>6. CASE UNCHANGED Conn!vars
    BY <1>6 DEF Waiting, Conn!vars, Conn!table, Conn!worker, Conn!history
  <1> QED
    BY <1>1, <1>2, <1>3, <1>4, <1>5, <1>6 DEF Conn!Next, Conn!Unload

\* The last scan frees all the chain.
LEMMA StepExiting ==
  ASSUME Conn!TypeOK, Exiting, [Conn!Next]_(Conn!vars)
  PROVE  Exiting'
  <1>1. CASE Conn!Thread \/ Conn!Tick \/ Conn!TimeGoesBy
    <2>1. CASE Conn!ThreadWakes
      BY Conn!TypeOK, Exiting, <2>1
         DEF Conn!ThreadWakes, Conn!TypeOK, Exiting, Conn!table, Conn!worker, Conn!history
    <2>2. CASE Conn!ThreadScans
      <3>1. ~g_conn_thread => g_conn_to_del' = {}
        BY <2>2 DEF Conn!ThreadScans, Conn!Expired
      <3> QED
        BY Conn!TypeOK, Exiting, <2>2, <3>1 DEF Conn!TypeOK, Exiting, Conn!ThreadScans
    <2>3. CASE Conn!ThreadLoops
      BY Conn!TypeOK, Exiting, <2>3 DEF Conn!TypeOK, Exiting, Conn!table, Conn!ThreadLoops
    <2>4. CASE Conn!Tick
      BY Conn!TypeOK, Exiting, <2>4
         DEF Conn!Tick, Conn!TypeOK, Exiting, Conn!table, Conn!worker, Conn!history
    <2>5. CASE Conn!ThreadSpins
      BY Exiting, <2>5 DEF Exiting, Conn!ThreadSpins, Conn!table
    <2>6. CASE Conn!TimeGoesBy
      BY Exiting, <2>6 DEF Exiting, Conn!TimeGoesBy, Conn!worker
    <2> QED
      BY <1>1, <2>1, <2>2, <2>3, <2>4, <2>5, <2>6 DEF Conn!Thread
  <1>2. CASE Conn!UnloadBegin \/ Conn!ConnStateFree \/ Conn!UnloadDone
    <2>1. CASE Conn!UnloadBegin
      BY Conn!TypeOK, Exiting, <2>1
         DEF Conn!UnloadBegin, Conn!TypeOK, Exiting, Conn!table, Conn!worker, Conn!history
    <2>2. CASE Conn!ConnStateFree
      BY Conn!TypeOK, Exiting, <2>2 DEF Conn!TypeOK, Exiting, Conn!network, Conn!ConnStateFree
    <2>3. CASE Conn!UnloadDone
      BY Conn!TypeOK, Exiting, <2>3
         DEF Conn!UnloadDone, Conn!TypeOK, Exiting, Conn!table, Conn!worker, Conn!history
    <2> QED
      BY <1>2, <2>1, <2>2, <2>3
  <1>3. ASSUME NEW c \in ConnObjs, Conn!OtFree(c) PROVE Exiting'
    <2>1. CASE Conn!OtFree(c)
      <3>1. (g_conn_to_del' = g_conn_to_del /\ (circular' <=> circular)) \/ g_conn_thread
        BY Exiting, <2>1 DEF Exiting, Conn!del_tcp_conn, Conn!HasEntry, Conn!table, Conn!OtFree
      <3> QED
        BY Conn!TypeOK, Exiting, <2>1, <3>1 DEF Conn!TypeOK, Exiting, Conn!worker, Conn!history, Conn!Idle, Conn!Indicating, Conn!OtFree
    <2> QED
      BY <1>3, <2>1
  <1>4. ASSUME NEW c \in ConnObjs, Conn!Client(c) PROVE Exiting'
    <2>1. CASE Conn!Create(c)
      BY Conn!TypeOK, Exiting, <2>1
         DEF Conn!Create, Conn!TypeOK, Exiting, Conn!table, Conn!worker, Conn!history
    <2>2. CASE Conn!Cleanup(c)
      <3>1. (g_conn_to_del' = g_conn_to_del /\ (circular' <=> circular)) \/ g_conn_thread
        BY Exiting, <2>2 DEF Exiting, Conn!del_tcp_conn, Conn!HasEntry, Conn!table, Conn!Cleanup
      <3> QED
        BY Conn!TypeOK, Exiting, <2>2, <3>1 DEF Conn!TypeOK, Exiting, Conn!worker, Conn!history, Conn!Idle, Conn!Indicating, Conn!Cleanup
    <2>3. CASE Conn!Connect(c)
      BY Conn!TypeOK, Exiting, <2>3 DEF Conn!TypeOK, Exiting, Conn!add_tcp_conn, Conn!Available, Conn!worker, Conn!history, Conn!Connect
    <2>4. CASE Conn!Release(c)
      BY Conn!TypeOK, Exiting, <2>4
         DEF Conn!TypeOK, Exiting, Conn!Idle, Conn!Disconnecting, Conn!Available, Conn!Indicating, Conn!table, Conn!worker, Conn!history, Conn!Release
    <2>5. CASE Conn!ReleaseSet(c)
      BY Conn!TypeOK, Exiting, <2>5
         DEF Conn!TypeOK, Exiting, Conn!Idle, Conn!Disconnecting, Conn!set_tcp_conn_state, Conn!worker, Conn!history, Conn!ReleaseSet
    <2>6. CASE Conn!Abort(c)
      BY Conn!TypeOK, Exiting, <2>6
         DEF Conn!TypeOK, Exiting, Conn!Idle, Conn!Disconnecting, Conn!set_tcp_conn_state, Conn!worker, Conn!history, Conn!Abort
    <2> QED
      BY <1>4, <2>1, <2>2, <2>3, <2>4, <2>5, <2>6 DEF Conn!Client
  <1>5. ASSUME NEW c \in ConnObjs, Conn!Transport(c) PROVE Exiting'
    <2>1. CASE Conn!Accept(c)
      BY Conn!TypeOK, Exiting, <2>1 DEF Conn!TypeOK, Exiting, Conn!add_tcp_conn, Conn!Available, Conn!worker, Conn!history, Conn!Accept
    <2>2. CASE Conn!AcceptReused(c)
      BY Conn!TypeOK, Exiting, <2>2
         DEF Conn!TypeOK, Exiting, Conn!Idle, Conn!Disconnecting, Conn!Available, Conn!Indicating, Conn!table, Conn!worker, Conn!history,
             Conn!AcceptReused
    <2>3. CASE Conn!TransportOpens(c)
      BY Conn!TypeOK, Exiting, <2>3
         DEF Conn!TransportOpens, Conn!TypeOK, Exiting, Conn!table, Conn!worker, Conn!history
    <2>4. CASE Conn!OpenComplete(c)
      BY Conn!TypeOK, Exiting, <2>4
         DEF Conn!TypeOK, Exiting, Conn!Idle, Conn!Disconnecting, Conn!set_tcp_conn_state, Conn!worker, Conn!history, Conn!OpenComplete
    <2>5. CASE Conn!OpenFails(c)
      <3>1. (g_conn_to_del' = g_conn_to_del /\ (circular' <=> circular)) \/ g_conn_thread
        BY Exiting, <2>5 DEF Exiting, Conn!del_tcp_conn, Conn!HasEntry, Conn!table, Conn!OpenFails
      <3> QED
        BY Conn!TypeOK, Exiting, <2>5, <3>1 DEF Conn!TypeOK, Exiting, Conn!worker, Conn!history, Conn!Idle, Conn!Indicating, Conn!OpenFails
    <2>6. CASE Conn!DisconnectComplete(c)
      <3>1. unload = "no"
        BY Exiting, <2>6 DEF Exiting, Conn!Idle, Conn!Disconnected, Conn!DisconnectComplete
      <3> QED
        BY Conn!TypeOK, Exiting, <2>6, <3>1 DEF Conn!TypeOK, Exiting, Conn!worker, Conn!history, Conn!Disconnected, Conn!DisconnectComplete
    <2>7. CASE Conn!DisconnectFails(c)
      BY Conn!TypeOK, Exiting, <2>7 DEF Conn!TypeOK, Exiting, Conn!Idle, Conn!table, Conn!worker, Conn!history, Conn!DisconnectFails
    <2>8. CASE Conn!RemoteRelease(c)
      BY Conn!TypeOK, Exiting, <2>8
         DEF Conn!TypeOK, Exiting, Conn!Idle, Conn!Disconnecting, Conn!Available, Conn!Indicating, Conn!table, Conn!worker, Conn!history,
             Conn!RemoteRelease
    <2>9. CASE Conn!RemoteReleaseSet(c)
      BY Conn!TypeOK, Exiting, <2>9
         DEF Conn!TypeOK, Exiting, Conn!Idle, Conn!Disconnecting, Conn!set_tcp_conn_state, Conn!worker, Conn!history, Conn!RemoteReleaseSet
    <2>10. CASE Conn!RemoteAbort(c)
      <3>1. (g_conn_to_del' = g_conn_to_del /\ (circular' <=> circular)) \/ g_conn_thread
        BY Exiting, <2>10 DEF Exiting, Conn!del_tcp_conn, Conn!HasEntry, Conn!table, Conn!RemoteAbort
      <3> QED
        BY Conn!TypeOK, Exiting, <2>10, <3>1
           DEF Conn!TypeOK, Exiting, Conn!worker, Conn!history, Conn!Idle, Conn!Indicating, Conn!RemoteAbort
    <2> QED
      BY <1>5, <2>1, <2>2, <2>3, <2>4, <2>5, <2>6, <2>7, <2>8, <2>9, <2>10 DEF Conn!Transport
  <1>6. CASE UNCHANGED Conn!vars
    BY <1>6 DEF Exiting, Conn!vars, Conn!table, Conn!worker, Conn!history
  <1> QED
    BY <1>1, <1>2, <1>3, <1>4, <1>5, <1>6 DEF Conn!Next, Conn!Unload

-----------------------------------------------------------------------------
\* The library starts in it,
LEMMA ConnInitially ==
  ASSUME Conn!Init
  PROVE  ConnInv
  <1>1. Conn!TypeOK
    <2>1. 0 \in 0 .. 2 * MAX_CLOSED_TIME /\ Conn!Forever \in 0 .. Conn!Forever
      BY ConnConstants DEF Conn!Forever
    <2>2. Conn!Idle \in [at : {"idle", "open", "release", "disconnect", "abort"}, state : Conn!TcpStates \cup {"NONE"}]
      BY DEF Conn!Idle
    <2> QED
      BY <2>1, <2>2 DEF Conn!Init, Conn!TypeOK
  <1>2. Pointed /\ Chained /\ Waiting /\ Exiting
    BY DEF Conn!Init, Pointed, Chained, Waiting, Exiting
  <1>3. Connections
    BY DEF Conn!Init, Connections, Consistent, OpenSays, Conn!Idle, Conn!HasEntry, Conn!get_tcp_conn_state_by_obj
  <1> QED
    BY <1>1, <1>2, <1>3 DEF ConnInv

\* and every step keeps it.
LEMMA ConnStep ==
  ASSUME ConnInv, [Conn!Next]_(Conn!vars)
  PROVE  ConnInv'
  BY StepConnType, StepPointed, StepChained, StepConnections, StepWaiting, StepExiting DEF ConnInv

\* The table, the chain, the handlers and the thread agree in every state.
THEOREM ConnInvariant == Conn!Spec => []ConnInv
  <1>1. Conn!Init => ConnInv
    BY ConnInitially
  <1>2. ConnInv /\ [Conn!Next]_(Conn!vars) => ConnInv'
    BY ConnStep
  <1> QED
    BY <1>1, <1>2, PTL DEF Conn!Spec

\* add_tcp_conn, del_tcp_conn and the thread: as long as no accepted connection
\* reuses an object too early, an entry is its object's, or queued once, or free.
THEOREM EntriesAlwaysOwned == Conn!Spec => []EntriesOwned
  <1>1. ConnInv => EntriesOwned
    BY DEF ConnInv, Pointed, Chained, EntriesOwned, Conn!EntriesOwned, Conn!DeletedOnce
  <1> QED
    BY <1>1, ConnInvariant, PTL

\* tdi_connect, tdi_disconnect, tdi_event_disconnect and their completions: what
\* the filter reads of a settled connection is what the transport knows of it.
THEOREM TableAlwaysTrue == Conn!Spec => []TableTrue
  <1>1. ASSUME ConnInv, NEW c \in ConnObjs, Conn!Settled(c)
        PROVE  LET s == Conn!get_tcp_conn_state_by_obj(c) IN
               /\ s # "NONE" <=> conn_entry[c] # Null
               /\ s # "NONE" => s = state[conn_entry[c]]
               /\ tcp[c] = "open" /\ ~again[c] => OpenSays("idle", "NONE", "NONE", fins[c], s)
               /\ tcp[c] \in {"none", "reset"} /\ ~again[c] => s \in {"NONE", "FIN_WAIT2", "CLOSE_WAIT", "TIME_WAIT"}
    <2>1. Consistent(c) /\ obj[c]
      BY <1>1 DEF ConnInv, Connections, Conn!Settled
    <2>2. conn_entry[c] # Null => state[conn_entry[c]] # "NONE"
      BY <1>1 DEF ConnInv, Conn!TypeOK, Conn!TcpStates
    <2> QED
      BY <1>1, <2>1, <2>2 DEF Consistent, Conn!Settled, Conn!Idle, Conn!HasEntry, Conn!get_tcp_conn_state_by_obj
  <1>2. ConnInv => Conn!TableTracks
    BY <1>1 DEF Conn!TableTracks, OpenSays, Conn!Established, Conn!Settled
  <1>3. ConnInv => Conn!NoGhosts
    BY <1>1 DEF Conn!NoGhosts, Conn!Established
  <1>4. ConnInv => TableTrue
    BY <1>2, <1>3 DEF ConnInv, TableTrue, Conn!TableTrue
  <1> QED
    BY <1>4, ConnInvariant, PTL

\* conn_thread: it frees a closed entry before twice MAX_CLOSED_TIME, as long as
\* no accepted connection reuses an object too early, and when it exits it leaves
\* none, unless the order to exit overtakes its scan.
THEOREM EntriesAlwaysFreed == Conn!Spec => []EntriesFreed
  <1>1. ConnInv => Conn!ClosedForgotten
    <2> SUFFICES ASSUME ConnInv, ~reused, NEW e \in Entries, state[e] = "CLOSED", connobj[e] = Null
                 PROVE  age[e] < 2 * MAX_CLOSED_TIME
      BY DEF Conn!ClosedForgotten, Conn!Forgotten
    <2>1. e \in g_conn_to_del
      BY ConnConstants DEF ConnInv, Chained
    <2> QED
      BY <2>1 DEF ConnInv, Waiting
  <1>2. ConnInv => Conn!CleanExit
    <2> SUFFICES ASSUME ConnInv, thread = "exited", ~overtaken, NEW e \in Entries, state[e] # "FREE"
                 PROVE  FALSE
      BY DEF Conn!CleanExit
    <2>1. g_conn_to_del = {} /\ ~reused /\ \A c \in ConnObjs : ~obj[c]
      BY DEF ConnInv, Exiting, Chained
    <2>2. connobj[e] \in ConnObjs /\ conn_entry[connobj[e]] = e
      BY <2>1 DEF ConnInv, Chained
    <2> QED
      BY <2>1, <2>2, ConnConstants DEF ConnInv, Pointed
  <1>3. ConnInv => EntriesFreed
    BY <1>1, <1>2 DEF EntriesFreed, Conn!EntriesFreed
  <1> QED
    BY <1>3, ConnInvariant, PTL

===============================================================================
