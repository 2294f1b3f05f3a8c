------------------------------ MODULE MemoryFace ------------------------------
(***************************************************************************)
(* The management face of the layered memory: a caller pages by keyset     *)
(* through the event summaries (L2) of one conversation while others edit  *)
(* and forget entries, the summaries and the long-term entities (L3), one  *)
(* by one or by a query, and a compaction in the background rewrites and   *)
(* adds summaries.                                                         *)
(*                                                                         *)
(* Entries are ordered by freshness, newest first, then by id; the clock   *)
(* counts seconds, so ties are the rule.  The store of conversations is    *)
(* paged the same way.                                                     *)
(***************************************************************************)
EXTENDS Naturals, Sequences, SequencesExt, FiniteSets

CONSTANTS
  Ids,         \* ids of summaries, in their order
  Seeded,      \* the summaries in the store when the model starts
  Entities,    \* the long-term entities
  Callers,     \* the callers of edit, forget and forget_matching
  Capacity,    \* InProcessL2MemoryStore.events_per_conversation
  Limits,      \* the page sizes and the budgets of forget_matching
  MaxTime,     \* bound on the clock
  MaxRequests, \* bound on the edits, removals and compactions
  MaxWrites    \* bound on the entries one compaction writes

ASSUME FaceAssumption ==
  /\ Ids \subseteq Nat \ {0} /\ Seeded \subseteq Ids /\ Limits \subseteq Nat
  /\ Entities \subseteq Nat \ {0} /\ Entities \cap Ids = {} /\ IsFiniteSet(Entities)
  /\ IsFiniteSet(Seeded) /\ Cardinality(Seeded) <= Capacity /\ Capacity \in Nat \ {0}
  /\ IsFiniteSet(Callers) /\ MaxTime \in Nat \ {0} /\ MaxRequests \in Nat /\ MaxWrites \in Nat

VARIABLES
  now,       \* the clock
  store,     \* L2: the summaries present, with their updated_at
  longterm,  \* L3: the entities present, with theirs
  ids,       \* the ids given so far
  listing,   \* the paging caller
  caller,    \* what each managing caller is doing
  compact,   \* the compaction in flight
  told,      \* Removed facts: how often each id was announced
  removed,   \* history: how often each id was removed by a call
  edited,    \* history: the ids written or removed since the listing began
  rewritten, \* history: the ids written with a time of the past since then
  requests   \* edits, removals and compactions so far

faceVars == <<now, store, longterm, ids, listing, caller, compact, told, removed, edited, rewritten, requests>>
facts == <<told, removed>>

Present    == DOMAIN store
Remembered == DOMAIN longterm
Entry      == Ids \cup Entities

(* A record as the face shows it: when it was last fresh, and its id.      *)
Item(f, i) == [at |-> f[i], id |-> i]
None       == [at |-> 0, id |-> 0]   \* no cursor

(* The filters of a query come down to the entries they let through.       *)
Query == [limit : Limits, matching : (SUBSET Entry) \ {{}}]

Free    == [pc |-> "free", todo |-> <<>>, gone |-> {}, at |-> 0]
NoWork  == [pc |-> "idle", existing |-> {}, at |-> 0, left |-> 0]

(* The store keeps to its capacity; an entry's stamps are of the past.     *)
Stored == Cardinality(Present) <= Capacity /\ \A i \in Present : store[i] \in 0..now

FaceTypeOK ==
  /\ now \in 0..MaxTime /\ Stored /\ Present \subseteq ids /\ ids \subseteq Ids
  /\ Remembered \subseteq Entities /\ \A i \in Remembered : longterm[i] \in 0..now
  /\ listing.pc \in {"closed", "open", "done"} /\ Range(listing.seen) \subseteq ids
  /\ \A c \in Callers : caller[c].pc \in {"free", "editing", "writing", "removing", "unlinking"}
                        /\ Range(caller[c].todo) \cup caller[c].gone \subseteq ids \cup Entities
                        /\ caller[c].at \in 0..now
  /\ compact.pc \in {"idle", "summarizing", "writing"} /\ compact.existing \subseteq ids
  /\ compact.at \in 0..now
  /\ requests \in 0..MaxRequests

FaceInit ==
  /\ now = 1 /\ store \in [Seeded -> {0, 1}] /\ ids = Seeded
  /\ longterm = [i \in Entities |-> 0]
  /\ listing = [pc |-> "closed", limit |-> 0, cursor |-> None, seen |-> <<>>]
  /\ caller = [c \in Callers |-> Free] /\ compact = NoWork
  /\ told = [i \in Entry |-> 0] /\ removed = [i \in Entry |-> 0]
  /\ edited = {} /\ rewritten = {} /\ requests = 0

Tick ==
  /\ now < MaxTime /\ now' = now + 1
  /\ UNCHANGED <<store, longterm, ids, listing, caller, compact, facts, edited, rewritten, requests>>
-----------------------------------------------------------------------------
(* The order of the listings, and the store *)

Precedes(a, b) == a.at > b.at \/ (a.at = b.at /\ a.id < b.id)

(* Variant: the cursor compares the time alone. *)
IsLater(item, cursor) == item.at < cursor.at

(* Strictly after the cursor, in the listing order. *)
IsAfter(item, cursor) == item.at < cursor.at \/ (item.at = cursor.at /\ item.id > cursor.id)

Items(f) == {Item(f, i) : i \in DOMAIN f}

(* collect: the sort. *)
Ranked(items) ==
  CHOOSE s \in SetToSeqs(items) : \A j, k \in DOMAIN s : j < k => Precedes(s[j], s[k])

(* page_of: the ranked items past the cursor, at most limit of them, and a  *)
(* cursor on the last of them when more remain.  A limit of 0 asks nothing. *)
PageOf(f, cursor, limit) ==
  LET rest == Ranked({item \in Items(f) : cursor = None \/ IsAfter(item, cursor)})
      take == IF Len(rest) < limit THEN Len(rest) ELSE limit IN
  [items |-> SubSeq(rest, 1, take),
   next  |-> IF take \in 1..(Len(rest) - 1) THEN rest[take] ELSE None]

(* Variant: eviction is left to whoever reads. *)
UpsertUncapped(id, at) == [i \in Present \cup {id} |-> IF i = id THEN at ELSE store[i]]

(* upsert: the entry in its place, and the least fresh beyond the capacity out. *)
Upsert(id, at) ==
  LET new  == [i \in Present \cup {id} |-> IF i = id THEN at ELSE store[i]]
      best == {item.id : item \in Range(PageOf(new, None, Capacity).items)} IN
  [i \in best |-> new[i]]

Without(id) == [i \in Present \ {id} |-> store[i]]

(* The graph holds any number; upsert_entity, and the removal by name. *)
Restored(id, at) == [i \in Remembered \cup {id} |-> IF i = id THEN at ELSE longterm[i]]
Cut(id)          == [i \in Remembered \ {id} |-> longterm[i]]
-----------------------------------------------------------------------------
(* list, page after page *)

(* The histories of the writes start with the listing. *)
OpenListing ==
  /\ listing.pc = "closed"
  /\ \E limit \in Limits : listing' = [listing EXCEPT !.pc = "open", !.limit = limit]
  /\ edited' = Ids \ Present /\ rewritten' = {}
  /\ UNCHANGED <<now, store, longterm, ids, caller, compact, facts, requests>>

NextPage ==
  /\ listing.pc = "open"
  /\ LET page == PageOf(store, listing.cursor, listing.limit) IN
       listing' = [listing EXCEPT !.seen = @ \o [i \in DOMAIN page.items |-> page.items[i].id],
                                  !.cursor = page.next,
                                  !.pc = IF page.next = None THEN "done" ELSE "open"]
  /\ UNCHANGED <<now, store, longterm, ids, caller, compact, facts, edited, rewritten, requests>>
-----------------------------------------------------------------------------
(* edit, forget and forget_matching *)

Begin(c, pc, todo) ==
  /\ caller[c].pc = "free" /\ requests < MaxRequests /\ requests' = requests + 1
  /\ caller' = [caller EXCEPT ![c] = [Free EXCEPT !.pc = pc, !.todo = todo]]
  /\ UNCHANGED <<now, store, longterm, ids, listing, compact, facts, edited, rewritten>>

(* find clones the entry; a missing one ends the call at once.              *)
FindToEdit(c)   == \E i \in Present \cup Remembered : Begin(c, "editing", <<i>>)
FindToForget(c) == \E i \in Present \cup Remembered : Begin(c, "removing", <<i>>)

Found(i) == IF i \in Present THEN store[i] ELSE longterm[i]

(* collect ranks the matching entries; the budget caps how many go.  The    *)
(* code reads one partition after the other: what goes in between is an     *)
(* entry the query let through or did not.                                  *)
Collect(c) ==
  \E q \in {x \in Query : x.matching \subseteq Present \cup Remembered} :
    LET matching == PageOf([i \in q.matching |-> Found(i)], None, q.limit).items IN
      Begin(c, "removing", [i \in DOMAIN matching |-> matching[i].id])

(* edit_entry and edit_entity take the time; the former then refreshes the  *)
(* vector, the latter after it wrote.                                       *)
Stamp(c) ==
  /\ caller[c].pc = "editing"
  /\ caller' = [caller EXCEPT ![c].pc = "writing", ![c].at = now]
  /\ UNCHANGED <<now, store, longterm, ids, listing, compact, facts, edited, rewritten, requests>>

(* The histories of a write. *)
Histories(i, at) ==
  /\ edited' = edited \cup {i}
  /\ rewritten' = IF at < now THEN rewritten \cup {i} ELSE rewritten

(* Then the clone is written back, whether or not the entry is still there, *)
(* and the face tells Updated; a store that refuses it fails the call.      *)
Edit(c) ==
  /\ caller[c].pc = "writing"
  /\ LET i == Head(caller[c].todo) IN
       \/ /\ i \in Ids /\ store' = Upsert(i, caller[c].at) /\ Histories(i, caller[c].at)
          /\ UNCHANGED longterm
       \/ i \in Entities /\ longterm' = Restored(i, caller[c].at) /\ UNCHANGED <<store, edited, rewritten>>
       \/ UNCHANGED <<store, longterm, edited, rewritten>>
  /\ caller' = [caller EXCEPT ![c] = Free]
  /\ UNCHANGED <<now, ids, listing, compact, facts, requests>>

(* Variant: whatever was asked to go is announced. *)
GoneAsked(id) == {id}
(* An entry someone else removed is not announced again. *)
Gone(id) == {id} \cap Present

(* remove_record, one entry after the other. *)
Removing(c, pc) == caller[c].pc = pc /\ caller[c].todo # <<>>
Due(c)          == Head(caller[c].todo)
PassOver(c)     == caller' = [caller EXCEPT ![c].todo = Tail(@)]
Claim(c, gone)  ==
  caller' = [caller EXCEPT ![c].pc = "removing", ![c].todo = Tail(@), ![c].gone = @ \cup gone]

Counted(id, there) == removed' = IF there THEN [removed EXCEPT ![id] = @ + 1] ELSE removed

(* forget_entry: the store removes it and says whether it was there.        *)
RemoveSummary(c) ==
  /\ Removing(c, "removing") /\ Due(c) \in Ids
  /\ store' = Without(Due(c)) /\ edited' = edited \cup {Due(c)}
  /\ Counted(Due(c), Due(c) \in Present) /\ Claim(c, Gone(Due(c)))
  /\ UNCHANGED <<now, longterm, ids, listing, compact, told, rewritten, requests>>

(* A store that refuses leaves the entry, and the next one is tried.        *)
RemovalFails(c) ==
  /\ Removing(c, "removing") /\ PassOver(c)
  /\ UNCHANGED <<now, store, longterm, ids, listing, compact, facts, edited, rewritten, requests>>

(* remove_entity_by_id looks the entity up in one section of its lock ...   *)
FindEntity(c) ==
  /\ Removing(c, "removing") /\ Due(c) \in Entities
  /\ IF Due(c) \in Remembered THEN caller' = [caller EXCEPT ![c].pc = "unlinking"] ELSE PassOver(c)
  /\ UNCHANGED <<now, store, longterm, ids, listing, compact, facts, edited, rewritten, requests>>

(* ... and removes it in another, which answers true even when someone else *)
(* was faster.                                                              *)
UnlinkEntity(c) ==
  /\ Removing(c, "unlinking")
  /\ longterm' = Cut(Due(c)) /\ Counted(Due(c), Due(c) \in Remembered) /\ Claim(c, {Due(c)})
  /\ UNCHANGED <<now, store, ids, listing, compact, told, edited, rewritten, requests>>

(* What the call's result counts as removed. *)
Result(c) == caller[c].gone

(* One Removed fact for all that went.                                      *)
Tell(gone) == told' = [i \in Entry |-> told[i] + (IF i \in gone THEN 1 ELSE 0)]

Announce(c) ==
  /\ caller[c].pc = "removing" /\ caller[c].todo = <<>> /\ Tell(Result(c))
  /\ caller' = [caller EXCEPT ![c] = Free]
  /\ UNCHANGED <<now, store, longterm, ids, listing, compact, removed, edited, rewritten, requests>>
-----------------------------------------------------------------------------
(* L2Memory::compact *)

(* The entries the summarizer may update are read before its model call.    *)
StartCompact ==
  /\ compact.pc = "idle" /\ requests < MaxRequests /\ requests' = requests + 1
  /\ compact' = [NoWork EXCEPT !.pc = "summarizing", !.existing = Present]
  /\ UNCHANGED <<now, store, longterm, ids, listing, caller, facts, edited, rewritten>>

(* What the summarizer may reply: so many summaries, none when there is     *)
(* nothing to remember.                                                     *)
Summaries == 0..MaxWrites

(* What a summary may name: an entry it was shown, or a new one.            *)
Targets == compact.existing \cup (Ids \ ids)

(* The time is taken once for all the summaries of a reply.                 *)
Summarized ==
  /\ compact.pc = "summarizing"
  /\ \/ \E n \in Summaries \ {0} : compact' = [compact EXCEPT !.pc = "writing", !.at = now, !.left = n]
     \/ compact' = NoWork     \* no summaries, or the model call failed
  /\ UNCHANGED <<now, store, longterm, ids, listing, caller, facts, edited, rewritten, requests>>

(* Each entry is embedded, then written: over an entry of the snapshot, or  *)
(* under a new id.  A failure leaves the entries written before it.         *)
WriteEntry ==
  /\ compact.pc = "writing"
  /\ \/ \E i \in Targets :
          /\ store' = Upsert(i, compact.at) /\ ids' = ids \cup {i} /\ Histories(i, compact.at)
          /\ compact' = IF compact.left = 1 THEN NoWork ELSE [compact EXCEPT !.left = @ - 1]
     \/ compact' = NoWork /\ UNCHANGED <<store, ids, edited, rewritten>>
  /\ UNCHANGED <<now, longterm, listing, caller, facts, requests>>

FaceNext ==
  \/ Tick \/ OpenListing \/ NextPage \/ StartCompact \/ Summarized \/ WriteEntry
  \/ \E c \in Callers : FindToEdit(c) \/ FindToForget(c) \/ Collect(c) \/ Stamp(c) \/ Edit(c)
                     \/ RemoveSummary(c) \/ RemovalFails(c) \/ FindEntity(c) \/ UnlinkEntity(c) \/ Announce(c)

FaceSpec == FaceInit /\ [][FaceNext]_faceVars
-----------------------------------------------------------------------------
(* Properties *)

Times(i) == Cardinality({k \in DOMAIN listing.seen : listing.seen[k] = i})

(* Keyset paging over entries that change underneath: an entry nobody      *)
(* touched is listed exactly once, wherever the page boundaries fall among *)
(* equal times; one that is edited meanwhile may be missed, having moved   *)
(* to the front, but is never listed twice.  Only a write whose time was   *)
(* taken before it moves an entry back into pages still to come: that of a *)
(* compaction, or of an edit that another one overtook (page_of, is_after, *)
(* LayeredMemory::list, edit_entry).                                       *)
ListingIsExact ==
  /\ \A i \in Ids \ rewritten : Times(i) <= 1
  /\ listing.pc = "done" /\ listing.limit > 0 => \A i \in Present \ edited : Times(i) = 1

Claims(i) == Cardinality({c \in Callers : i \in caller[c].gone})

(* The removal of a summary is announced once, by the call that made it:   *)
(* two calls that found the same one do not both claim it, and a call      *)
(* whose later removals fail still tells the earlier ones.  Of an entity   *)
(* the store answers true to every call that found it, so several may      *)
(* claim one removal; but none goes untold, and nothing is told that       *)
(* nobody removed (forget, forget_matching, remove_entity_by_id).          *)
RemovalsAreTold ==
  /\ \A i \in Ids : removed[i] = told[i] + Claims(i)
  /\ \A i \in Entities : /\ removed[i] <= told[i] + Claims(i)
                         /\ told[i] + Claims(i) > 0 => removed[i] > 0
=============================================================================
