--------------------------- MODULE DurabilityStore ---------------------------
(***************************************************************************)
(* One bucket file of the local effect mirror (durability/store.go): the   *)
(* table of contents (TOC) and the payload blocks in a shared mapping, the *)
(* goroutines that publish, delete and sync records, and the crashes after *)
(* which the next start has only what the operating system kept.           *)
(*                                                                         *)
(* A block of the file is [next, slots, data]: a TOC page uses next and    *)
(* slots, a payload block uses data, a fresh or punched block is Zero.     *)
(* cache is the file as processes see it, disk what survives a power loss; *)
(* the operating system copies blocks from cache to disk when it likes.    *)
(***************************************************************************)
EXTENDS Naturals, Sequences, FiniteSets, SequencesExt

CONSTANTS IDs, None,  \* effects of this bucket
          PerPage,    \* TOC entries in a page
          MaxBlocks,  \* bound on the file's length, in blocks
          MaxCrashes, \* bound on crashes
          Crashes,    \* kinds of crash: a subset of {"kill", "power"}
          Faults      \* calls that may fail: a subset of {"sync", "punch", "map"}

VARIABLES cache, disk, len,     \* the file: page cache, storage, length
          name,                 \* "none", "linked", "unlinked" (not yet synced)
          status,               \* "up", "down", "failed" (start refused), "panicked"
          opened,               \* b.file # nil
          entries, free, cursor, lastPage,    \* the bucket's index of the TOC
          dirty, due,           \* generation # synced; a sync deadline is set
          punches,              \* extents to punch once their tombstone is synced
          pc, slot, pos,        \* Put or Delete of each id (one at a time: stripes)
          sync,                 \* the holder of syncMu
          durable, gone,        \* history: ids a sync vouched for, present or absent
          crashes

file == <<cache, disk, len, name>>
index == <<entries, free, cursor, lastPage>>
work == <<pc, slot, pos>>
history == <<durable, gone>>
vars == <<file, status, opened, index, dirty, due, punches, work, sync, history, crashes>>


Nowhere == <<0, 0>>
FreeEntry == [state |-> "free", id |-> None, pos |-> 0]
Zero == [next |-> 0, slots |-> [i \in 1..PerPage |-> FreeEntry], data |-> None]
Fresh == [b \in 1..MaxBlocks |-> Zero]
FirstPage == 1
NoSync == [pc |-> "idle", same |-> FALSE, since |-> FALSE, todo |-> {}, punches |-> <<>>,
           present |-> {}, absent |-> {}]

Init ==
    /\ cache = Fresh /\ disk = Fresh /\ len = 0 /\ name = "none"
    /\ status = "up" /\ opened = FALSE
    /\ entries = <<>> /\ free = <<>> /\ cursor = 0 /\ lastPage = 0
    /\ dirty = FALSE /\ due = FALSE /\ punches = <<>>
    /\ pc = [i \in IDs |-> "idle"]
    /\ slot = [i \in IDs |-> Nowhere] /\ pos = [i \in IDs |-> 0]
    /\ sync = NoSync
    /\ durable = {} /\ gone = IDs
    /\ crashes = 0

-----------------------------------------------------------------------------
(* The file read back: pages in link order, their entries, what is wrong.  *)

PagesFrom(f) ==
    LET from[p \in 0..MaxBlocks] ==
            IF p = 0 THEN <<>> ELSE <<p>> \o (IF f[p].next > p THEN from[f[p].next] ELSE <<>>)
    IN from[FirstPage]

SlotsOf(p) == [i \in 1..PerPage |-> <<p, i>>]

AllSlots(f) == FlattenSeq([n \in DOMAIN PagesFrom(f) |-> SlotsOf(PagesFrom(f)[n])])

Entry(f, s) == f[s[1]].slots[s[2]]

Published(f) == {s \in ToSet(AllSlots(f)) : Entry(f, s).state = "published"}

OpenedFree(f) == SelectSeq(AllSlots(f), LAMBDA s : s \notin Published(f))

Duplicate(f) == \E s, t \in Published(f) : s # t /\ Entry(f, s).id = Entry(f, t).id

Corrupt(f) == \E s \in Published(f) : f[Entry(f, s).pos].data # Entry(f, s).id

Lookup(f) == [i \in {Entry(f, s).id : s \in Published(f)} |->
                 CHOOSE s \in Published(f) : Entry(f, s).id = i]

-----------------------------------------------------------------------------
(* Locks. b.life is held shared from reservation to publication and while  *)
(* a sync flushes, exclusively to grow, remove and punch.                  *)

Readers == {i \in IDs : pc[i] = "publish"}

Removing == \E i \in IDs : pc[i] = "dirsync"

Shared == status = "up" /\ ~Removing

Exclusive == Shared /\ Readers = {} /\ sync.pc # "flush"

SetSlot(f, s, entry) == [f EXCEPT ![s[1]].slots[s[2]] = entry]

Goto(i, step) == pc' = [pc EXCEPT ![i] = step]

\* b.dirty: a new generation; a running sync no longer vouches for id i.
Dirty(i) ==
    /\ dirty' = TRUE /\ due' = TRUE
    /\ sync' = IF sync.pc = "flush"
               THEN [sync EXCEPT !.since = TRUE, !.present = @ \ {i}, !.absent = @ \ {i}]
               ELSE sync

Reopened == [sync EXCEPT !.same = FALSE, !.punches = <<>>]

-----------------------------------------------------------------------------
(* Put.                                                                    *)

Put(i) ==
    /\ Shared /\ pc[i] = "idle"
    /\ ~(opened /\ i \in DOMAIN entries)
    /\ Goto(i, "put")
    /\ UNCHANGED <<file, status, opened, index, dirty, due, punches, slot, pos, sync, history, crashes>>

Fits == opened /\ free # <<>> /\ cursor <= len

\* The loop finds the record published once the file is open again.
PutKnown(i) ==
    /\ Shared /\ pc[i] = "put" /\ opened /\ i \in DOMAIN entries
    /\ Goto(i, "idle")
    /\ UNCHANGED <<file, status, opened, index, dirty, due, punches, slot, pos, sync, history, crashes>>

Reserve(i) ==
    /\ Shared /\ pc[i] = "put" /\ Fits /\ i \notin DOMAIN entries
    /\ slot' = [slot EXCEPT ![i] = Last(free)]
    /\ free' = Front(free)
    /\ pos' = [pos EXCEPT ![i] = cursor]
    /\ cursor' = cursor + 1
    /\ cache' = SetSlot(cache, Last(free), FreeEntry)
    /\ Goto(i, "publish")
    /\ UNCHANGED <<disk, len, name, status, opened, entries, lastPage, dirty, due, punches, sync, history, crashes>>

\* The payload and the entry's fields, then its state. The fields of an
\* entry that is not published are never read, so the model clears them.
Publish(i) ==
    /\ status = "up" /\ pc[i] = "publish"
    /\ cache' = SetSlot([cache EXCEPT ![pos[i]].data = i], slot[i],
                        [state |-> "published", id |-> i, pos |-> pos[i]])
    /\ entries' = [j \in DOMAIN entries \cup {i} |-> IF j = i THEN slot[i] ELSE entries[j]]
    /\ Dirty(i)
    /\ slot' = [slot EXCEPT ![i] = Nowhere] /\ pos' = [pos EXCEPT ![i] = 0]
    /\ gone' = gone \ {i}
    /\ Goto(i, "idle")
    /\ UNCHANGED <<disk, len, name, status, opened, free, cursor, lastPage, punches, durable, crashes>>

\* The exclusive part of Put: the file is opened or created when there is
\* none, the mapping grows, and without a free slot a TOC page is linked.
Loaded ==
    [cache |-> cache, entries |-> Lookup(cache), free |-> OpenedFree(cache),
     lastPage |-> Last(PagesFrom(cache)), cursor |-> len + 1]

Created ==
    [cache |-> Fresh, entries |-> <<>>, free |-> SlotsOf(FirstPage),
     lastPage |-> FirstPage, cursor |-> FirstPage + 1]

Current ==
    [cache |-> cache, entries |-> entries, free |-> free, lastPage |-> lastPage, cursor |-> cursor]

Grown(b) ==
    IF b.free # <<>> THEN b
    ELSE [b EXCEPT !.cache[b.cursor] = Zero, !.cache[b.lastPage].next = b.cursor,
                   !.lastPage = b.cursor, !.cursor = @ + 1, !.free = SlotsOf(b.cursor)]

Install(b) ==
    /\ cache' = b.cache /\ entries' = b.entries /\ free' = b.free
    /\ lastPage' = b.lastPage /\ cursor' = b.cursor

Extend(i) ==
    /\ Exclusive /\ pc[i] = "put" /\ ~Fits /\ ~(opened /\ i \in DOMAIN entries)
    /\ LET b == CASE opened -> Current
                [] ~opened /\ name = "linked" -> Loaded
                [] OTHER -> Created
       IN /\ b.cursor <= MaxBlocks /\ Grown(b).cursor <= MaxBlocks
          /\ Install(Grown(b)) /\ len' = Grown(b).cursor
    /\ opened' = TRUE /\ name' = "linked"
    /\ UNCHANGED <<disk, status, dirty, due, punches, work, sync, history, crashes>>

\* The file cannot be extended: Put returns the error. When the old mapping
\* cannot be restored either, the handle is closed.
GrowFails(i) ==
    /\ Exclusive /\ pc[i] = "put" /\ opened /\ ~Fits
    /\ "map" \in Faults
    /\ \E restored \in BOOLEAN : opened' = restored /\ sync' = IF restored THEN sync ELSE Reopened
    /\ Goto(i, "idle")
    /\ UNCHANGED <<file, status, index, dirty, due, punches, slot, pos, history, crashes>>

-----------------------------------------------------------------------------
(* Delete.                                                                 *)

\* Delete does not look whether the file is mapped.
DeleteUnmapped(i) ==
    /\ Shared /\ pc[i] = "idle" /\ ~opened
    /\ i \in DOMAIN entries
    /\ status' = "panicked"
    /\ UNCHANGED <<file, opened, index, dirty, due, punches, work, sync, history, crashes>>

Delete(i) ==
    /\ Shared /\ pc[i] = "idle" /\ opened
    /\ i \in DOMAIN entries
    /\ LET s == entries[i]
       IN /\ cache' = SetSlot(cache, s, [FreeEntry EXCEPT !.state = "deleted"])
          /\ punches' = Append(punches, Entry(cache, s).pos)
          /\ free' = Append(free, s)
    /\ entries' = [j \in DOMAIN entries \ {i} |-> entries[j]]
    /\ durable' = durable \ {i}
    /\ Dirty(i)
    /\ Goto(i, IF DOMAIN entries = {i} THEN "remove" ELSE "idle")
    /\ UNCHANGED <<disk, len, name, status, opened, cursor, lastPage, slot, pos, gone, crashes>>

Flushed == disk' = cache

\* b.remove up to the synced directory: the tombstones, then the name.
Unlink ==
    /\ opened' = FALSE /\ entries' = <<>> /\ free' = <<>> /\ punches' = <<>>
    /\ cursor' = 0 /\ lastPage' = 0
    /\ dirty' = FALSE /\ due' = FALSE
    /\ sync' = Reopened

Erased == cache' = Fresh /\ disk' = Fresh /\ len' = 0 /\ name' = "none"

RemoveFile(i) ==
    /\ Exclusive /\ pc[i] = "remove"
    /\ IF opened /\ entries = <<>>
       THEN /\ Flushed /\ Unlink /\ name' = "unlinked" /\ Goto(i, "dirsync")
            /\ UNCHANGED <<cache, len, status, slot, pos, history, crashes>>
       ELSE /\ Goto(i, "idle")
            /\ UNCHANGED <<file, status, opened, index, dirty, due, punches, slot, pos, sync, history, crashes>>

\* The sync fails, or the unlink does after the file was closed.
RemoveFails(i) ==
    /\ Exclusive /\ pc[i] = "remove" /\ opened /\ entries = <<>>
    /\ \/ "sync" \in Faults /\ UNCHANGED <<disk, opened, sync>>
       \/ "unlink" \in Faults /\ Flushed /\ opened' = FALSE /\ sync' = Reopened
    /\ Goto(i, "idle")
    /\ UNCHANGED <<cache, len, name, status, index, dirty, due, punches, slot, pos, history, crashes>>

SyncDirectory(i) ==
    /\ pc[i] = "dirsync" /\ status = "up"
    /\ Erased /\ gone' = IDs
    /\ Goto(i, "idle")
    /\ UNCHANGED <<status, opened, index, dirty, due, punches, slot, pos, sync, durable, crashes>>

\* Reset holds s.life: no Put or Delete is under way.
Reset ==
    /\ Exclusive /\ \A i \in IDs : pc[i] = "idle"
    /\ opened
    /\ Unlink /\ Erased
    /\ durable' = {} /\ gone' = IDs
    /\ UNCHANGED <<status, work, crashes>>

-----------------------------------------------------------------------------
(* sync, called by the loop once the deadline passed and by Sync. The      *)
(* operating system writes a block whenever it likes; fsync returns when   *)
(* every block that differed at its call was written.                      *)

Writeback(b) ==
    /\ disk[b] # cache[b] /\ name # "none"
    /\ disk' = [disk EXCEPT ![b] = cache[b]]
    /\ sync' = [sync EXCEPT !.todo = @ \ {b}]
    /\ UNCHANGED <<cache, len, name, status, opened, index, dirty, due, punches, work, history, crashes>>

Captured == [pc |-> "flush", same |-> TRUE, since |-> FALSE,
             todo |-> {b \in 1..MaxBlocks : disk[b] # cache[b]},
             punches |-> punches,
             present |-> DOMAIN entries, absent |-> IDs \ DOMAIN entries]

SyncStart ==
    /\ Shared /\ sync.pc = "idle" /\ opened /\ dirty
    /\ sync' = Captured
    /\ punches' = <<>> /\ due' = FALSE
    /\ UNCHANGED <<file, status, opened, index, dirty, work, history, crashes>>

\* Mutant: the generation at the end, not at the start, counts as synced.
SyncDoneLatest ==
    /\ status = "up" /\ sync.pc = "flush" /\ sync.todo = {}
    /\ dirty' = FALSE
    /\ durable' = durable \cup sync.present
    /\ gone' = gone \cup sync.absent
    /\ sync' = IF sync.punches = <<>> THEN NoSync
               ELSE [NoSync EXCEPT !.pc = "punch", !.same = TRUE, !.punches = sync.punches]
    /\ UNCHANGED <<file, status, opened, index, due, punches, work, crashes>>

SyncDone ==
    /\ status = "up" /\ sync.pc = "flush" /\ sync.todo = {}
    /\ dirty' = sync.since
    /\ durable' = durable \cup sync.present
    /\ gone' = gone \cup sync.absent
    /\ sync' = IF sync.punches = <<>> THEN NoSync
               ELSE [NoSync EXCEPT !.pc = "punch", !.same = TRUE, !.punches = sync.punches]
    /\ UNCHANGED <<file, status, opened, index, due, punches, work, crashes>>

SyncFails ==
    /\ status = "up" /\ sync.pc = "flush" /\ "sync" \in Faults
    /\ punches' = punches \o sync.punches
    /\ due' = TRUE
    /\ sync' = NoSync
    /\ UNCHANGED <<file, status, opened, index, dirty, work, history, crashes>>

Punched(f, extents) == [b \in 1..MaxBlocks |-> IF b \in ToSet(extents) THEN Zero ELSE f[b]]

\* Holes are punched under the exclusive lock, in the file they were taken
\* from. After a failure the rest is kept for the next sync.
Punch ==
    /\ Exclusive /\ sync.pc = "punch"
    /\ \E n \in 0..Len(sync.punches) :
          LET done == SubSeq(sync.punches, 1, n)
              rest == SubSeq(sync.punches, n + 1, Len(sync.punches))
          IN IF ~sync.same
             THEN n = 0 /\ UNCHANGED <<cache, disk, punches, dirty, due>>
             ELSE /\ rest = <<>> \/ "punch" \in Faults
                  /\ cache' = Punched(cache, done) /\ disk' = Punched(disk, done)
                  /\ punches' = punches \o rest
                  /\ dirty' = (dirty \/ rest # <<>>) /\ due' = (due \/ rest # <<>>)
    /\ sync' = NoSync
    /\ UNCHANGED <<len, name, status, opened, index, work, history, crashes>>

\* Sync of a bucket without a file or with nothing new returns at once.
SyncNothing ==
    /\ Shared /\ sync.pc = "idle" /\ ~(opened /\ dirty)
    /\ durable' = durable \cup DOMAIN entries
    /\ gone' = gone \cup (IDs \ DOMAIN entries)
    /\ UNCHANGED <<file, status, opened, index, dirty, due, punches, work, sync, crashes>>

-----------------------------------------------------------------------------
(* Shutdown, crashes and the next start.                                   *)

\* The process ends and with it everything it held in memory.
Stopped ==
    /\ status' = "down" /\ opened' = FALSE
    /\ entries' = <<>> /\ free' = <<>> /\ cursor' = 0 /\ lastPage' = 0
    /\ dirty' = FALSE /\ due' = FALSE /\ punches' = <<>>
    /\ pc' = [i \in IDs |-> "idle"]
    /\ slot' = [i \in IDs |-> Nowhere] /\ pos' = [i \in IDs |-> 0]
    /\ sync' = NoSync

Close ==
    /\ Exclusive /\ sync.pc = "idle" /\ opened
    /\ \A i \in IDs : pc[i] = "idle"
    /\ \/ /\ IF dirty
             THEN cache' = Punched(cache, punches) /\ disk' = Punched(cache, punches)
             ELSE UNCHANGED <<cache, disk>>
          /\ durable' = durable \cup DOMAIN entries
          /\ gone' = gone \cup (IDs \ DOMAIN entries)
       \/ dirty /\ "close" \in Faults /\ UNCHANGED <<cache, disk, history>>
    /\ Stopped
    /\ UNCHANGED <<len, name, crashes>>

Crash(kind) ==
    /\ kind \in Crashes /\ crashes < MaxCrashes
    /\ crashes' = crashes + 1
    /\ Stopped
    /\ UNCHANGED history

Kill == status = "up" /\ Crash("kill") /\ UNCHANGED file

PowerLoss ==
    /\ status # "failed" /\ Crash("power")
    /\ cache' = disk
    /\ name' \in IF name = "unlinked" THEN {"none", "linked"} ELSE {name}
    /\ UNCHANGED <<disk, len>>

\* Open and Recover: the TOC is loaded and every payload checked.
Restart ==
    /\ status = "down"
    /\ IF name # "linked"
       THEN status' = "up" /\ UNCHANGED <<cache, opened, index>>
       ELSE IF Duplicate(cache) \/ Corrupt(cache)
            THEN status' = "failed" /\ UNCHANGED <<cache, opened, index>>
            ELSE status' = "up" /\ opened' = TRUE /\ Install(Loaded)
    /\ UNCHANGED <<disk, len, name, dirty, due, punches, work, sync, history, crashes>>

Next ==
    \/ \E i \in IDs : \/ Put(i) \/ PutKnown(i) \/ Reserve(i) \/ Publish(i) \/ Extend(i)
                      \/ GrowFails(i) \/ Delete(i) \/ DeleteUnmapped(i) \/ RemoveFile(i) \/ RemoveFails(i) \/ SyncDirectory(i)
    \/ \E b \in 1..MaxBlocks : Writeback(b)
    \/ SyncStart \/ SyncDone \/ SyncFails \/ Punch \/ SyncNothing \/ Reset
    \/ Close \/ Kill \/ PowerLoss \/ Restart

Spec == Init /\ [][Next]_vars

-----------------------------------------------------------------------------
(* Types: the index stays within the blocks that the file has.             *)
TypeOK ==
    /\ status \in {"up", "down", "failed", "panicked"} /\ opened \in BOOLEAN
    /\ DOMAIN entries \subseteq IDs
    /\ len \in 0..MaxBlocks
    /\ \A i \in IDs : pos[i] \in 0..len

(* What a successful sync vouched for is on storage: present records with  *)
(* an intact payload, at any moment, so after a crash at any moment.       *)
OnDisk(i) == \E s \in Published(disk) :
                 Entry(disk, s).id = i /\ disk[Entry(disk, s).pos].data = i

SyncedIsOnDisk == name = "linked" => \A i \in durable : OnDisk(i)

(* A deletion that was synced is never undone by a crash. *)
DeletedStaysDeleted ==
    name # "none" => \A s \in Published(disk) : Entry(disk, s).id \notin gone

(* Storage never holds a published entry whose payload was punched: the    *)
(* tombstone is synced first (store.go, Delete).                           *)
PunchAfterTombstone ==
    sync.pc = "punch" /\ sync.same =>
        \A s \in Published(disk) : Entry(disk, s).pos \notin ToSet(sync.punches)

(* A TOC slot is free, reserved by one Put, or published for one id. *)
SlotsOwnedOnce ==
    status = "up" /\ opened =>
        LET reserved == {i \in IDs : slot[i] # Nowhere}
        IN /\ IsInjective(free) /\ IsInjective(entries)
           /\ \A i, j \in reserved : i # j => slot[i] # slot[j]
           /\ \A i \in reserved : slot[i] \notin ToSet(free) \cup {entries[j] : j \in DOMAIN entries}
           /\ \A j \in DOMAIN entries : entries[j] \notin ToSet(free) /\ Entry(cache, entries[j]).id = j

(* What is not synced has a deadline or a sync under way ("Sync errors are *)
(* logged and retried", durability/README.md).                             *)
DirtyHasDeadline == dirty => due \/ sync.pc = "flush"

(* The next start succeeds and has every record a sync vouched for. *)
RestartRecovers ==
    /\ status # "failed"
    /\ status = "up" /\ name = "linked" => durable \subseteq DOMAIN entries
=============================================================================
