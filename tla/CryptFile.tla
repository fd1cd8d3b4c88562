------------------------------ MODULE CryptFile ------------------------------
(***************************************************************************)
(* Transparent encryption of one file (crypt_file): the list of files that *)
(* are open encrypted (cf_list.c), the create and close paths of sfilter's *)
(* callbacks (cf_sfilter.c, cf_create.c) and the paging I/O that shifts    *)
(* and encrypts (cf_modify_irp.c).  The file system (FastFat), its FCB and *)
(* the cache manager are external.                                         *)
(*                                                                         *)
(* The file is two cells: the first 4 KB, where the header is, and the     *)
(* rest.  A note is text a notepad puts into an encrypted file.  Every     *)
(* process has one handle; notepads open existing files, or create them if *)
(* they must, and work on their first page.  Requests the filter sends     *)
(* itself and allocations do not fail.                                     *)
(***************************************************************************)
EXTENDS Naturals, FiniteSets

CONSTANTS
    Notepads,       \* the processes named notepad.exe
    Others          \* all other processes

Procs == Notepads \cup Others

ASSUME CryptAssumption == IsFiniteSet(Procs) /\ Notepads \cap Others = {}

VARIABLES
    pc,         \* where the open, the handle or the close of each process is
    kind,       \* how its open went through cfIrpCreatePre
    listed,     \* is the FCB in s_cf_list?  "stale": a node of a freed FCB is
    lock,       \* s_cf_list_lock: the process that left it held, if any
    disk,       \* what is in the two cells
    cache,      \* the pages of the cache, "nil" if not in it
    dirty,      \* the pages still to be written
    seen,       \* history: what the handle last read
    raced       \* history: was one of the code's races lost (Race, below)?

data == <<disk, cache, dirty>>
vars == <<pc, kind, listed, lock, data, seen, raced>>

Pages  == 0 .. 1
Values == {"eof", "magic", "text", "note", "x-magic", "x-text", "x-note"}

\* buffer[i] ^= 0x77
Xor(v) == CASE v = "text"    -> "x-text"  [] v = "x-text"  -> "text"
            [] v = "note"    -> "x-note"  [] v = "x-note"  -> "note"
            [] v = "magic"   -> "x-magic" [] v = "x-magic" -> "magic"
            [] OTHER         -> v

Free == "free"

\* What the properties on the notes except: the actions that name a condition
\* here are the windows of the code, and there are no others.
Race(cond) == raced' = (raced \/ cond)

\* The file objects the file system knows, and those not cleaned up yet.
Objects == {p \in Procs : pc[p] \notin {"idle", "open", "post", "remove"}}
Unclean == {p \in Objects : pc[p] # "cleaned"}

cfIsFileCrypting == listed = "yes"

-----------------------------------------------------------------------------
(* Paging I/O: cfIrpReadPre and Post, cfIrpWritePre.  Of a listed file the *)
(* header is skipped and the rest is encrypted.                            *)
PageIn(i) ==
    IF cfIsFileCrypting THEN IF i = 0 THEN Xor(disk[1]) ELSE "eof"
                        ELSE disk[i]

Flushed ==
    IF cfIsFileCrypting
    THEN [disk EXCEPT ![1] = IF 0 \in dirty THEN Xor(cache[0]) ELSE @]
    ELSE [i \in Pages |-> IF i \in dirty THEN cache[i] ELSE disk[i]]

Purged == [i \in Pages |-> "nil"]

\* Every paging request looks at the list.
Flush ==
    /\ dirty # {} => lock = Free
    /\ disk' = Flushed
    /\ dirty' = {}

\* cfFileCacheClear, with both resources of the FCB.
cfFileCacheClear ==
    /\ Flush
    /\ cache' = Purged

\* The lazy writer.
LazyWrite ==
    /\ dirty # {}
    /\ Flush
    /\ UNCHANGED <<pc, kind, listed, lock, cache, seen, raced>>

-----------------------------------------------------------------------------
(* The FCB.  A new one may be where a freed one was, whose node is left.   *)
FcbForOpen ==
    IF Objects = {} /\ listed = "stale" THEN listed' \in {"stale", "yes"}
                                        ELSE UNCHANGED listed

\* A file that nobody encrypts is in the list.
Reused == listed = "stale" /\ listed' = "yes"

\* The last file object takes the FCB along, and the cache, which has been
\* written: a clean page is all that is left of it.
FcbAfterClose(p) ==
    IF Objects = {p}
    THEN /\ dirty = {}
         /\ cache' = Purged
         /\ listed' = IF listed = "yes" THEN "stale" ELSE listed
         /\ UNCHANGED <<disk, dirty>>
    ELSE UNCHANGED <<listed, data>>

-----------------------------------------------------------------------------
(* cfIrpCreatePre: a file object of the filter's own is opened below it.   *)
PreOpen(n) ==
    /\ pc[n] = "idle"
    /\ FcbForOpen
    /\ pc' = [pc EXCEPT ![n] = "listed?"]
    /\ Race(Reused)
    /\ UNCHANGED <<kind, lock, data, seen>>

PreListed(n) ==
    /\ pc[n] = "listed?"
    /\ lock = Free
    /\ IF cfIsFileCrypting
       THEN /\ pc' = [pc EXCEPT ![n] = "preclose"]
            /\ kind' = [kind EXCEPT ![n] = "listed"]
       ELSE /\ pc' = [pc EXCEPT ![n] = "size?"]
            /\ UNCHANGED kind
    /\ UNCHANGED <<listed, lock, data, seen, raced>>

\* The size and, of a file that is not too short, the first bytes, which are
\* read past the cache, so that what is dirty is written first.
PreSize(n) ==
    /\ pc[n] = "size?"
    /\ IF Flushed[0] = "magic" THEN Flush ELSE UNCHANGED <<disk, dirty>>
    /\ \E write \in BOOLEAN :
          IF Flushed[0] = "eof" /\ write
          THEN /\ pc' = [pc EXCEPT ![n] = "header"]
               /\ UNCHANGED kind
          ELSE /\ pc' = [pc EXCEPT ![n] = "preclose"]
               /\ kind' = [kind EXCEPT ![n] = IF Flushed[0] = "magic" THEN "new"
                                               ELSE IF write THEN "plain" ELSE "read"]
    /\ UNCHANGED <<listed, lock, cache, seen, raced>>

\* cfWriteAHeader: the size becomes that of the header; past the cache.
\* Race: it was empty, and is not any more.
PreHeader(n) ==
    /\ pc[n] = "header"
    /\ dirty # {} => lock = Free
    /\ Race(Flushed[0] # "eof")
    /\ disk' = [i \in Pages |-> IF i = 0 THEN "magic" ELSE "eof"]
    /\ dirty' = {}
    /\ cache' = Purged
    /\ pc' = [pc EXCEPT ![n] = "preclose"]
    /\ kind' = [kind EXCEPT ![n] = "new"]
    /\ UNCHANGED <<listed, lock, seen>>

\* Only a file to be encrypted is cleared from the cache.
PreClose(n) ==
    /\ pc[n] = "preclose"
    /\ IF kind[n] = "new"
       THEN /\ cfFileCacheClear
            /\ listed' = IF Objects = {n} /\ listed = "yes" THEN "stale" ELSE listed
       ELSE FcbAfterClose(n)
    /\ pc' = [pc EXCEPT ![n] = "open"]
    /\ UNCHANGED <<kind, lock, seen, raced>>

-----------------------------------------------------------------------------
(* The create below.  Of a notepad SF_IRP_PASS ends it, SF_IRP_GO_ON leads *)
(* to OnSfilterIrpPost, as every create of another process does.           *)
\* Race: the file was in the list, and is not any more.
Create(n) ==
    /\ pc[n] = "open"
    /\ FcbForOpen
    /\ pc' = [pc EXCEPT ![n] = IF kind[n] = "new" THEN "clear" ELSE "use"]
    /\ Race(Reused \/ (kind[n] = "listed" /\ listed' # "yes"))
    /\ UNCHANGED <<kind, lock, data, seen>>

CreateRefused(n) ==
    /\ pc[n] = "open"
    /\ pc' = [pc EXCEPT ![n] = "idle"]
    /\ kind' = [kind EXCEPT ![n] = "none"]
    /\ UNCHANGED <<listed, lock, data, seen, raced>>

OtherCreate(o) ==
    /\ pc[o] = "idle"
    /\ FcbForOpen
    /\ pc' = [pc EXCEPT ![o] = "judge"]
    /\ Race(Reused)
    /\ UNCHANGED <<kind, lock, data, seen>>

OtherPost(o) ==
    /\ pc[o] = "judge"
    /\ lock = Free
    /\ pc' = [pc EXCEPT ![o] = IF cfIsFileCrypting THEN "cancel" ELSE "use"]
    /\ UNCHANGED <<kind, listed, lock, data, seen, raced>>

-----------------------------------------------------------------------------
(* cfFileCryptAppendLk.                                                    *)
\* Mutant: the cache is not cleared here.
AppendClear_Kept(n) ==
    /\ pc[n] = "clear"
    /\ pc' = [pc EXCEPT ![n] = "append"]
    /\ UNCHANGED <<kind, listed, lock, data, seen, raced>>

AppendClear(n) ==
    /\ pc[n] = "clear"
    /\ cfFileCacheClear
    /\ pc' = [pc EXCEPT ![n] = "append"]
    /\ UNCHANGED <<kind, listed, lock, seen, raced>>

\* Mutant: other handles are not looked for.
AppendLk_Shared(n) ==
    /\ pc[n] = "append"
    /\ lock = Free
    /\ ~cfIsFileCrypting
    /\ listed' = "yes"
    /\ pc' = [pc EXCEPT ![n] = "use"]
    /\ UNCHANGED <<kind, lock, data, seen, raced>>

\* Of a file that is in the list the function returns with the lock.
\* Races: another notepad has inserted it; its header was overwritten.
AppendLk(n) ==
    /\ pc[n] = "append"
    /\ lock = Free
    /\ \/ /\ cfIsFileCrypting
          /\ lock' = n
          /\ pc' = [pc EXCEPT ![n] = "use"]
          /\ Race(TRUE)
          /\ UNCHANGED listed
       \/ /\ ~cfIsFileCrypting /\ Unclean # {n}
          /\ pc' = [pc EXCEPT ![n] = "cancel"]
          /\ UNCHANGED <<listed, lock, raced>>
       \/ /\ ~cfIsFileCrypting /\ Unclean = {n}
          /\ listed' = "yes"
          /\ pc' = [pc EXCEPT ![n] = "use"]
          /\ Race(disk[0] # "magic")
          /\ UNCHANGED lock
    /\ UNCHANGED <<kind, data, seen>>

\* IoCancelFileOpen: cleanup and close, below the filter.
Cancel(p) ==
    /\ pc[p] = "cancel"
    /\ FcbAfterClose(p)
    /\ pc' = [pc EXCEPT ![p] = "idle"]
    /\ kind' = [kind EXCEPT ![p] = "none"]
    /\ UNCHANGED <<lock, seen, raced>>

-----------------------------------------------------------------------------
(* A handle in use: cached reads and writes.                               *)
\* The cache is cleared and the lock, for what is to follow, not yet taken.
Cleared == \E p \in Procs : pc[p] \in {"append", "remove"}

Read(p) ==
    /\ pc[p] = "use"
    /\ \E i \in IF p \in Notepads THEN {0} ELSE Pages :
          /\ cache[i] = "nil" => lock = Free
          /\ LET v == IF cache[i] = "nil" THEN PageIn(i) ELSE cache[i] IN
             /\ cache' = [cache EXCEPT ![i] = v]
             /\ seen' = [seen EXCEPT ![p] = v]
    /\ Race(Cleared)
    /\ UNCHANGED <<pc, kind, listed, lock, disk, dirty>>

\* The text of a notepad is a note if its open found the file encrypted.
Write(p) ==
    /\ pc[p] = "use" /\ kind[p] # "read"
    /\ cache' = [cache EXCEPT ![0] = IF kind[p] \in {"new", "listed"} THEN "note" ELSE "text"]
    /\ dirty' = dirty \cup {0}
    /\ Race(Cleared)
    /\ UNCHANGED <<pc, kind, listed, lock, disk, seen>>

Cleanup(p) ==
    /\ pc[p] = "use"
    /\ pc' = [pc EXCEPT ![p] = "cleaned"]
    /\ seen' = [seen EXCEPT ![p] = "eof"]
    /\ kind' = [kind EXCEPT ![p] = "none"]
    /\ UNCHANGED <<listed, lock, data, raced>>

-----------------------------------------------------------------------------
(* IRP_MJ_CLOSE: of a file in the list OnSfilterIrpPost follows, which     *)
(* reads the FCB the close may have freed.                                 *)
Close(p) ==
    /\ pc[p] = "cleaned"
    /\ lock = Free
    /\ FcbAfterClose(p)
    /\ pc' = [pc EXCEPT ![p] = IF cfIsFileCrypting THEN "post" ELSE "idle"]
    /\ UNCHANGED <<kind, lock, seen, raced>>

\* cfCryptFileCleanupComplete.

\* UncleanCount counts the other handles.  Of a freed FCB it is anything.
CloseClear(p) ==
    /\ pc[p] = "post"
    /\ lock = Free
    /\ \/ /\ listed # "stale" /\ Objects # {}
          /\ Cardinality(Unclean) <= 1
          /\ cfFileCacheClear
          /\ pc' = [pc EXCEPT ![p] = "remove"]
       \/ /\ listed # "stale" /\ Objects # {}
          /\ Cardinality(Unclean) > 1
          /\ pc' = [pc EXCEPT ![p] = "idle"]
          /\ UNCHANGED data
       \/ /\ listed # "yes"
          /\ \E next \in {"remove", "idle"} : pc' = [pc EXCEPT ![p] = next]
          /\ UNCHANGED data
    /\ UNCHANGED <<kind, listed, lock, seen, raced>>

CloseRemove(p) ==
    /\ pc[p] = "remove"
    /\ lock = Free
    /\ \/ /\ listed = "yes" /\ Unclean = {}
          /\ listed' = "no"
       \/ /\ listed = "stale"
          /\ listed' = "no"
       \/ /\ listed = "yes" => Unclean # {}
          /\ UNCHANGED listed
    /\ pc' = [pc EXCEPT ![p] = "idle"]
    /\ UNCHANGED <<kind, lock, data, seen, raced>>

-----------------------------------------------------------------------------
\* cfListInit; the file is empty, or has text or notes.
Init ==
    /\ pc = [p \in Procs |-> "idle"]
    /\ kind = [p \in Procs |-> "none"]
    /\ listed = "no"
    /\ lock = Free
    /\ disk \in {[i \in Pages |-> "eof"],
                 [i \in Pages |-> IF i = 0 THEN "text" ELSE "eof"],
                 [i \in Pages |-> IF i = 0 THEN "magic" ELSE "x-note"]}
    /\ cache = Purged
    /\ dirty = {}
    /\ seen = [p \in Procs |-> "eof"]
    /\ raced = FALSE

Opening(n) == \/ PreOpen(n) \/ PreListed(n) \/ PreSize(n) \/ PreHeader(n) \/ PreClose(n)
              \/ Create(n) \/ CreateRefused(n) \/ AppendClear(n) \/ AppendLk(n)
Using(p)   == Read(p) \/ Write(p) \/ Cleanup(p)
Closing(p) == Close(p) \/ CloseClear(p) \/ CloseRemove(p)

Next ==
    \/ LazyWrite
    \/ \E n \in Notepads : Opening(n)
    \/ \E o \in Others : OtherCreate(o) \/ OtherPost(o)
    \/ \E p \in Procs : Cancel(p) \/ Using(p) \/ Closing(p)

Spec == Init /\ [][Next]_vars

-----------------------------------------------------------------------------
(* Properties.                                                             *)
States == {"idle", "listed?", "size?", "header", "preclose", "open", "clear", "append",
           "cancel", "judge", "use", "cleaned", "post", "remove"}

\* The variables have their types, and only cached pages are dirty.
TypeOK ==
    /\ pc \in [Procs -> States]
    /\ kind \in [Procs -> {"none", "new", "listed", "plain", "read"}]
    /\ listed \in {"no", "yes", "stale"}
    /\ lock \in Notepads \cup {Free}
    /\ disk \in [Pages -> Values]
    /\ cache \in [Pages -> Values \cup {"nil"}]
    /\ dirty \subseteq {i \in Pages : cache[i] # "nil"}
    /\ seen \in [Procs -> Values]
    /\ raced \in BOOLEAN

\* While a file is in the list no other process has it open: whichever of the
\* insertion under the lock and the create of the other process is first, one
\* of the two opens is cancelled.
Exclusive == cfIsFileCrypting => \A o \in Others : pc[o] # "use"

\* What notepads put into an encrypted file never is on the disk in the
\* clear, and as long as the file is in the list its header is there.
NoteEncrypted ==
    ~raced =>
        /\ \A i \in Pages : disk[i] # "note"
        /\ cfIsFileCrypting => disk[0] = "magic"

\* ... and no other process ever reads it in the clear, not from the pages
\* that were left in the cache either.
NoteSecret == ~raced => \A o \in Others : seen[o] # "note"

\* A notepad that has an encrypted file open reads the text of it: never the
\* header, never what is on the disk, and never what was cached before.
NotepadReadsNotes ==
    ~raced => \A n \in Notepads : kind[n] \in {"new", "listed"} => seen[n] \in {"eof", "note"}

\* ASSERT(crypting == FALSE) of the create, ASSERT(FALSE) of the insertion:
\* a file that is to be inserted is not in the list.  Not so if two notepads
\* open it at once.
InsertedOnce == \A n \in Notepads : pc[n] = "append" => ~cfIsFileCrypting

\* Notes are in the clear for notepads only, and always for them, as long as
\* none of the windows of the code was met.
NotesProtected == NoteEncrypted /\ NoteSecret /\ NotepadReadsNotes

===============================================================================
