------------------------- MODULE ConversationProofs -------------------------
(***************************************************************************)
(* What holds of a conversation's life for every number of handles, runs,  *)
(* failed saves and crashes.  The inductive invariant says, above the      *)
(* types, where the enders and the handles are (Located, SweptOnce), that  *)
(* a handle is marked by one end only (Once), that an entry whose handle   *)
(* is marked has that very end on its way to remove it (Disowning), and    *)
(* that a task an entry tracks is never started again (Spawned).           *)
(***************************************************************************)
EXTENDS ConversationLifecycle, TLAPS

RunRec == [at : {"idle", "pushed", "snapped", "recorded", "over"},
           on : Objects \cup {NoHandle}, snap : State]

Places == {"idle", "listed", "loaded", "called", "marked", "drain",
           "finalize", "hook", "save", "notify", "flush"}
EndRec == [at : Places, on : Objects \cup {NoHandle}, snap : State, drain : SUBSET Runs,
           told : SUBSET Runs]

Ending == {"called", "marked", "drain", "finalize", "hook", "save", "notify"}

Located ==
  /\ \A r \in Runs : run[r].at = "pushed" => run[r].on \in Objects
  /\ \A e \in Enders : /\ endr[e].on \in made \cup {NoHandle}
                       /\ endr[e].at \in Ending => endr[e].on # NoHandle
                       /\ endr[e].at \in {"idle", "flush"} => endr[e].on = NoHandle
  /\ endr["explicit"].on # SweepHandle
  /\ teardown = "none" => endr["shutdown"].on = NoHandle

(* The handle a sweep restored lives while an end holds it, and the next     *)
(* sweep begins when it is gone.                                             *)
SweptOnce ==
  /\ SweepHandle \in made => \E e \in {"sweep", "shutdown"} : endr[e].on = SweepHandle
  /\ endr["sweep"].at \in {"idle", "listed"} => endr["sweep"].on = NoHandle
  /\ endr["sweep"].at = "loaded" => endr["sweep"].on = SweepHandle
  /\ endr["sweep"].at = "listed" => SweepHandle \notin made

Unmade == \A h \in Handles \ made : ~ended[h] /\ ends[h] = 0

Once ==
  /\ \A h \in Objects : ends[h] \in {0, 1} /\ (ends[h] = 1 => ended[h])
  /\ \A e \in Enders : Acting(e) => ended[endr[e].on] /\ ends[endr[e].on] = 0
  /\ \A e, f \in Enders : Acting(e) /\ Acting(f) /\ endr[e].on = endr[f].on => e = f

Disowning ==
  owner # NoHandle /\ ended[owner] =>
     \E e \in Enders : endr[e].at = "marked" /\ endr[e].on = owner

Spawned ==
  \A r \in Runs : run[r].at # "over" => r \notin tasks /\ \A e \in Enders : r \notin endr[e].drain

Placed == Located /\ SweptOnce
Marks  == Unmade /\ Once /\ Disowning
Drains == Spawned /\ DrainPrecedesFinalize
IInv   == TypeOK /\ Placed /\ Marks /\ Drains

-----------------------------------------------------------------------------
(* Types *)

LEMMA TypeForm ==
  TypeOK <=>
    /\ store \in State /\ made \subseteq Objects
    /\ turns \in [Objects -> SUBSET Runs] /\ ended \in [Objects -> BOOLEAN]
    /\ owner \in made \cup {NoHandle} /\ tasks \subseteq Runs /\ (owner = NoHandle => tasks = {})
    /\ task \in [Runs -> {"none", "running", "finished", "panicked"}]
    /\ run \in [Runs -> RunRec] /\ endr \in [Enders -> EndRec]
    /\ teardown \in {"none", "begun", "done"} /\ ends \in [Objects -> Nat]
    /\ fails \in 0..MaxFails /\ crashes \in 0..MaxCrashes
BY DEF TypeOK, RunRec, EndRec, Places

LEMMA Idle ==
  /\ Empty \in State /\ IdleRun \in RunRec /\ IdleEnd \in EndRec
  /\ IdleRun.at = "idle" /\ IdleRun.on = NoHandle
  /\ IdleEnd.at = "idle" /\ IdleEnd.on = NoHandle /\ IdleEnd.drain = {} /\ IdleEnd.told = {}
BY DEF Empty, State, IdleRun, IdleEnd, RunRec, EndRec, Places

LEMMA HandlesApart ==
  /\ NoHandle \notin Objects /\ SweepHandle \notin Handles
  /\ Handles \subseteq Objects /\ SweepHandle \in Objects
  /\ Objects = Handles \cup {SweepHandle}
BY LifecycleAssumption DEF Objects

LEMMA SnapshotTyped ==
  ASSUME TypeOK, NEW h \in Objects
  PROVE  Snapshot(h) \in State
BY TypeForm DEF Snapshot, State

LEMMA SaveTyped ==
  ASSUME TypeOK, NEW s \in State, Save(s)
  PROVE  store' \in State /\ fails' \in 0..MaxFails
<1>1. CASE store' = s /\ UNCHANGED fails
  BY <1>1, TypeForm
<1>2. CASE fails < MaxFails /\ fails' = fails + 1 /\ UNCHANGED store
  <2>1. fails \in 0..MaxFails /\ MaxFails \in Nat
    BY TypeForm, LifecycleAssumption
  <2>. QED
    BY <1>2, <2>1, TypeForm
<1>. QED
  BY <1>1, <1>2 DEF Save

(* Only run r moves, or only ender e, to a record of its type. *)
RunIs(r, x) == /\ run' \in [Runs -> RunRec] /\ run'[r] = x
               /\ \A q \in Runs \ {r} : run'[q] = run[q]

EnderIs(e, x) == /\ endr' \in [Enders -> EndRec] /\ endr'[e] = x
                 /\ \A f \in Enders \ {e} : endr'[f] = endr[f]

LEMMA RunReplaced ==
  ASSUME TypeOK, NEW r \in Runs, NEW x \in RunRec, run' = [run EXCEPT ![r] = x]
  PROVE  RunIs(r, x)
BY TypeForm DEF RunIs

LEMMA EnderReplaced ==
  ASSUME TypeOK, NEW e \in Enders, NEW x \in EndRec, endr' = [endr EXCEPT ![e] = x]
  PROVE  EnderIs(e, x)
BY TypeForm DEF EnderIs

LEMMA CallIs ==
  ASSUME TypeOK, NEW e \in Enders, NEW h \in Objects, Call(e, h)
  PROVE  \E x \in EndRec : EnderIs(e, x) /\ x.at = "called" /\ x.on = h /\ x.drain = {}
<1>. DEFINE x == [IdleEnd EXCEPT !.at = "called", !.on = h]
<1>1. x \in EndRec /\ x.at = "called" /\ x.on = h /\ x.drain = {}
  BY DEF IdleEnd, EndRec, Places, Empty, State
<1>2. endr' = [endr EXCEPT ![e] = x]
  BY DEF Call
<1>. HIDE DEF x
<1>. QED
  BY <1>1, <1>2, EnderReplaced

-----------------------------------------------------------------------------
(* The steps of a run *)

(* What the parts of the invariant about handles and ends depend on. *)
LEMMA MarksUntouched ==
  ASSUME Marks, UNCHANGED <<made, ended, ends, owner, endr>>
  PROVE  Marks'
BY DEF Marks, Unmade, Once, Disowning, Acting

LEMMA PlacesUntouched ==
  ASSUME Placed, UNCHANGED <<made, endr, teardown>>,
         \A r \in Runs : run'[r].at = "pushed" => run'[r].on \in Objects
  PROVE  Placed'
BY DEF Placed, Located, SweptOnce

LEMMA DrainsUntouched ==
  ASSUME Drains, UNCHANGED <<tasks, endr, task>>,
         \A r \in Runs : run'[r].at # "over" => run[r].at # "over"
  PROVE  Drains'
BY DEF Drains, Spawned, DrainPrecedesFinalize

LEMMA PushTurnKeeps ==
  ASSUME IInv, NEW r \in Runs, NEW h \in Handles, PushTurn(r, h)
  PROVE  IInv'
<1>. DEFINE x == [IdleRun EXCEPT !.at = "pushed", !.on = h]
<1>1. TypeOK /\ Placed /\ Marks /\ Drains
  BY DEF IInv
<1>2. x \in RunRec /\ x.at = "pushed" /\ x.on = h /\ h \in Objects
  BY HandlesApart DEF IdleRun, RunRec, Empty, State
<1>3. run' = [run EXCEPT ![r] = x]
  BY DEF PushTurn
<1>. HIDE DEF x
<1>4. RunIs(r, x)
  BY <1>1, <1>2, <1>3, RunReplaced
<1>5. TypeOK'
  <2>1. turns' \in [Objects -> SUBSET Runs]
    BY <1>1, <1>2, TypeForm DEF PushTurn
  <2>. QED
    BY <1>1, <1>4, <2>1, TypeForm DEF TypeOK, PushTurn, RunIs, table, bounds, RunRec, EndRec, Places
<1>6. Placed'
  BY <1>1, <1>2, <1>4, PlacesUntouched DEF PushTurn, RunIs, Placed, Located
<1>7. Marks'
  BY <1>1, MarksUntouched DEF PushTurn, table
<1>8. Drains'
  BY <1>1, <1>2, <1>4, DrainsUntouched DEF PushTurn, RunIs, table
<1>. QED
  BY <1>5, <1>6, <1>7, <1>8 DEF IInv

LEMMA SnapTurnKeeps ==
  ASSUME IInv, NEW r \in Runs, SnapTurn(r)
  PROVE  IInv'
<1>. DEFINE s == Snapshot(run[r].on)
            x == [run[r] EXCEPT !.at = "snapped", !.snap = s]
<1>1. TypeOK /\ Placed /\ Marks /\ Drains
  BY DEF IInv
<1>2. run[r] \in RunRec /\ s \in State
  BY <1>1, TypeForm, SnapshotTyped DEF SnapTurn, Placed, Located
<1>3. run' = [run EXCEPT ![r] = x]
  BY DEF SnapTurn
<1>. HIDE DEF s
<1>4. x \in RunRec /\ x.at = "snapped"
  BY <1>2 DEF RunRec
<1>. HIDE DEF x
<1>5. RunIs(r, x)
  BY <1>1, <1>3, <1>4, RunReplaced
<1>6. TypeOK'
  BY <1>1, <1>5, TypeForm
     DEF TypeOK, SnapTurn, RunIs, object, table, bounds, RunRec, EndRec, Places
<1>7. Placed'
  BY <1>1, <1>4, <1>5, PlacesUntouched DEF SnapTurn, RunIs, Placed, Located, object
<1>8. Marks'
  BY <1>1, MarksUntouched DEF SnapTurn, object, table
<1>9. Drains'
  BY <1>1, <1>4, <1>5, DrainsUntouched DEF SnapTurn, RunIs, table
<1>. QED
  BY <1>6, <1>7, <1>8, <1>9 DEF IInv

LEMMA SaveTurnKeeps ==
  ASSUME IInv, NEW r \in Runs, SaveTurn(r)
  PROVE  IInv'
<1>. DEFINE x == [run[r] EXCEPT !.at = "recorded", !.snap = Empty]
<1>1. TypeOK /\ Placed /\ Marks /\ Drains
  BY DEF IInv
<1>2. run[r] \in RunRec /\ run[r].snap \in State
  BY <1>1, TypeForm DEF RunRec
<1>3. run' = [run EXCEPT ![r] = x]
  BY DEF SaveTurn
<1>4. x \in RunRec /\ x.at = "recorded"
  BY <1>2, Idle DEF RunRec
<1>. HIDE DEF x
<1>5. RunIs(r, x)
  BY <1>1, <1>3, <1>4, RunReplaced
<1>6. store' \in State /\ fails' \in 0..MaxFails
  BY <1>1, <1>2, SaveTyped DEF SaveTurn
<1>7. TypeOK'
  BY <1>1, <1>5, <1>6, TypeForm
     DEF TypeOK, SaveTurn, RunIs, object, table, RunRec, EndRec, Places
<1>8. Placed'
  BY <1>1, <1>4, <1>5, PlacesUntouched DEF SaveTurn, RunIs, Placed, Located, object
<1>9. Marks'
  BY <1>1, MarksUntouched DEF SaveTurn, object, table
<1>10. Drains'
  BY <1>1, <1>4, <1>5, <1>6, DrainsUntouched DEF SaveTurn, RunIs, table
<1>. QED
  BY <1>7, <1>8, <1>9, <1>10 DEF IInv

(* The task is filed after it was started, and nobody drains it already. *)
LEMMA SpawnTaskKeeps ==
  ASSUME IInv, NEW r \in Runs, SpawnTask(r)
  PROVE  IInv'
<1>. DEFINE x == [IdleRun EXCEPT !.at = "over"]
<1>1. TypeOK /\ Placed /\ Marks /\ Drains
  BY DEF IInv
<1>2. x \in RunRec /\ x.at = "over"
  BY HandlesApart DEF IdleRun, RunRec, Empty, State
<1>3. run' = [run EXCEPT ![r] = x]
  BY DEF SpawnTask
<1>. HIDE DEF x
<1>4. RunIs(r, x)
  BY <1>1, <1>2, <1>3, RunReplaced
<1>5. TypeOK'
  <2>1. task' \in [Runs -> {"none", "running", "finished", "panicked"}]
    BY <1>1, TypeForm DEF SpawnTask
  <2>2. tasks' \subseteq Runs /\ (owner' = NoHandle => tasks' = {})
    BY <1>1, TypeForm DEF SpawnTask
  <2>. QED
    BY <1>1, <1>4, <2>1, <2>2, TypeForm
       DEF TypeOK, SpawnTask, RunIs, object, bounds, RunRec, EndRec, Places
<1>6. Placed'
  BY <1>1, <1>2, <1>4, PlacesUntouched DEF SpawnTask, RunIs, Placed, Located, object
<1>7. Marks'
  BY <1>1, MarksUntouched DEF SpawnTask, object
<1>8. Drains'
  <2>1. \A e \in Enders : r \notin endr[e].drain
    BY <1>1 DEF SpawnTask, Drains, Spawned
  <2>2. \A q \in Runs \ {r} : task'[q] = task[q] /\ run'[q] = run[q] /\ (q \in tasks' => q \in tasks)
    BY <1>1, <1>4, TypeForm DEF SpawnTask, RunIs
  <2>3. DrainPrecedesFinalize'
    <3>. SUFFICES ASSUME NEW e \in Enders, endr[e].at \in {"finalize", "hook", "save", "notify"},
                         NEW q \in Runs, q \in endr[e].drain, task'[q] = "running"
                  PROVE  q \in endr[e].told
      <4>1. \A e \in Enders : endr[e].drain \subseteq Runs
        BY <1>1, TypeForm DEF EndRec
      <4>. QED
        BY <4>1 DEF DrainPrecedesFinalize, SpawnTask
    <3>. QED
      BY <1>1, <2>1, <2>2 DEF Drains, DrainPrecedesFinalize
  <2>4. Spawned'
    BY <1>1, <1>2, <1>4, <2>2 DEF Drains, Spawned, SpawnTask, RunIs
  <2>. QED
    BY <2>3, <2>4 DEF Drains
<1>. QED
  BY <1>5, <1>6, <1>7, <1>8 DEF IInv

LEMMA TaskEndsKeeps ==
  ASSUME IInv, NEW r \in Runs, TaskEnds(r)
  PROVE  IInv'
<1>1. TypeOK /\ Placed /\ Marks /\ Drains
  BY DEF IInv
<1>2. /\ task' \in [Runs -> {"none", "running", "finished", "panicked"}]
      /\ \A q : task'[q] = "running" => task[q] = "running"
  BY <1>1, TypeForm DEF TaskEnds
<1>3. TypeOK'
  BY <1>1, <1>2, TypeForm DEF TypeOK, TaskEnds, object, table, bounds, RunRec, EndRec, Places
<1>4. Placed'
  BY <1>1, PlacesUntouched DEF TaskEnds, Placed, Located, object
<1>5. Marks'
  BY <1>1, MarksUntouched DEF TaskEnds, object, table
<1>6. Drains'
  BY <1>1, <1>2 DEF TaskEnds, table, Drains, Spawned, DrainPrecedesFinalize
<1>. QED
  BY <1>3, <1>4, <1>5, <1>6 DEF IInv

-----------------------------------------------------------------------------
(* Handles, and the three who call end *)

LEMMA CreateKeeps ==
  ASSUME IInv, NEW h \in Handles, Create(h)
  PROVE  IInv'
<1>1. TypeOK /\ Placed /\ Marks /\ Drains /\ h \in Objects /\ h # SweepHandle /\ h # NoHandle
  BY HandlesApart DEF IInv
<1>2. store' \in State /\ fails' \in 0..MaxFails
  BY <1>1, SnapshotTyped, SaveTyped DEF Create
<1>3. owner = NoHandle /\ owner' = h /\ made' = {h} /\ ~ended[h]
  BY <1>1, TypeForm DEF Create, Register, Marks, Unmade
<1>4. TypeOK'
  BY <1>1, <1>2, <1>3, TypeForm DEF TypeOK, Create, Register, RunRec, EndRec, Places
<1>5. Placed'
  BY <1>1, <1>3 DEF Create, Placed, Located, SweptOnce
<1>6. Marks'
  BY <1>1, <1>3 DEF Create, Marks, Unmade, Once, Disowning, Acting
<1>7. Drains'
  BY <1>1, <1>2, DrainsUntouched DEF Create, Register
<1>. QED
  BY <1>4, <1>5, <1>6, <1>7 DEF IInv

(* Nobody ends a handle before it is made. *)
LEMMA RestoreKeeps ==
  ASSUME IInv, NEW h \in Handles, Restore(h)
  PROVE  IInv'
<1>1. /\ TypeOK /\ Placed /\ Marks /\ Drains
      /\ h \in Objects /\ h # SweepHandle /\ h # NoHandle /\ h \notin made
  BY HandlesApart DEF IInv, Restore
<1>2. store.turns \in SUBSET Runs /\ store.ended \in BOOLEAN
  BY <1>1, TypeForm DEF State
<1>3. /\ made' = made \cup {h} /\ tasks' = tasks
      /\ owner' = owner \/ (owner' = h /\ owner = NoHandle /\ ~store.ended)
  BY DEF Restore, Register, table
<1>4. /\ turns' \in [Objects -> SUBSET Runs] /\ ended' \in [Objects -> BOOLEAN]
      /\ ended'[h] = store.ended /\ \A g \in Objects \ {h} : ended'[g] = ended[g]
  BY <1>1, <1>2, TypeForm DEF Restore
<1>5. TypeOK'
  BY <1>1, <1>3, <1>4, TypeForm DEF TypeOK, Restore, bounds, RunRec, EndRec, Places
<1>6. Placed'
  BY <1>1, <1>3 DEF Restore, Placed, Located, SweptOnce
<1>7. Marks'
  <2>1. \A e \in Enders : endr[e].on # h
    BY <1>1 DEF Placed, Located
  <2>2. \A e \in Enders : Acting(e) => endr[e].on \in Objects \ {h}
    BY <1>1, <2>1, TypeForm DEF Placed, Located, Acting, Ending
  <2>3. Unmade'
    BY <1>1, <1>3, <1>4, HandlesApart DEF Restore, Marks, Unmade
  <2>4. Once'
    BY <1>1, <1>4, <2>2 DEF Restore, Marks, Once, Unmade, Acting
  <2>5. Disowning'
    BY <1>1, <1>3, <1>4, TypeForm DEF Restore, Marks, Disowning
  <2>. QED
    BY <2>3, <2>4, <2>5 DEF Marks
<1>8. Drains'
  BY <1>1, <1>3, DrainsUntouched DEF Restore
<1>. QED
  BY <1>5, <1>6, <1>7, <1>8 DEF IInv

(* An ender that was not acting is called, and does not act yet. *)
LEMMA CalledKeeps ==
  ASSUME IInv, NEW e \in Enders, NEW x \in EndRec, EnderIs(e, x), ~Acting(e),
         x.at \notin {"marked", "drain", "finalize", "hook", "save", "notify"},
         x.drain \subseteq endr[e].drain,
         UNCHANGED <<store, made, turns, ends, ended, owner, tasks, task, run, crashes>>,
         fails' \in 0..MaxFails, teardown' \in {"none", "begun", "done"}
  PROVE  TypeOK' /\ Marks' /\ Drains'
<1>1. TypeOK /\ Marks /\ Drains
  BY DEF IInv
<1>2. TypeOK'
  BY <1>1, TypeForm DEF TypeOK, EnderIs, RunRec, EndRec, Places
<1>3. Marks'
  <2>1. \A f \in Enders : Acting(f)' => f # e /\ Acting(f) /\ endr'[f] = endr[f]
    BY DEF EnderIs, Acting
  <2>2. \A f \in Enders : endr[f].at = "marked" => endr'[f] = endr[f]
    BY DEF EnderIs, Acting
  <2>3. Once'
    BY <1>1, <2>1 DEF Marks, Once
  <2>4. Unmade' /\ Disowning'
    BY <1>1, <2>2 DEF Marks, Unmade, Disowning
  <2>. QED
    BY <2>3, <2>4 DEF Marks
<1>4. Drains'
  BY <1>1 DEF Drains, Spawned, DrainPrecedesFinalize, EnderIs
<1>. QED
  BY <1>2, <1>3, <1>4

LEMMA EndExplicitlyKeeps ==
  ASSUME IInv, NEW h \in Handles, EndExplicitly(h)
  PROVE  IInv'
<1>1. /\ TypeOK /\ Placed /\ "explicit" \in Enders /\ h \in made
      /\ h \in Objects /\ h # SweepHandle /\ h # NoHandle
  BY HandlesApart DEF Enders, EndExplicitly, IInv
<1>2. PICK x \in EndRec : EnderIs("explicit", x) /\ x.at = "called" /\ x.on = h /\ x.drain = {}
  BY <1>1, CallIs DEF EndExplicitly
<1>3. ~Acting("explicit")
  BY DEF EndExplicitly, Acting
<1>4. TypeOK' /\ Marks' /\ Drains'
  BY <1>1, <1>2, <1>3, CalledKeeps, TypeForm DEF EndExplicitly, object, table, bounds
<1>5. endr'["sweep"] = endr["sweep"] /\ endr'["shutdown"] = endr["shutdown"]
  BY <1>2 DEF EnderIs, Enders
<1>6. Located'
  BY <1>1, <1>2, <1>5 DEF Placed, Located, EnderIs, Enders, EndExplicitly, object
<1>7. SweptOnce'
  BY <1>1, <1>5 DEF Placed, SweptOnce, EndExplicitly, object
<1>. QED
  BY <1>4, <1>6, <1>7 DEF IInv, Placed

LEMMA ShutdownCollectsKeeps ==
  ASSUME IInv, ShutdownCollects
  PROVE  IInv'
<1>1. /\ TypeOK /\ Placed /\ "shutdown" \in Enders /\ endr["shutdown"].on = NoHandle
      /\ fails \in 0..MaxFails
  BY TypeForm DEF Enders, ShutdownCollects, IInv, Placed, Located
<1>2. ~Acting("shutdown")
  BY <1>1 DEF Acting, IInv, Placed, Located, Ending
<1>3. PICK x \in EndRec : /\ EnderIs("shutdown", x) /\ x.drain \subseteq endr["shutdown"].drain
                          /\ \/ x.at = "called" /\ x.on = owner /\ owner \in made
                             \/ x.at = "flush" /\ x.on = NoHandle
  <2>1. CASE owner = NoHandle
    <3>. DEFINE x == [endr["shutdown"] EXCEPT !.at = "flush"]
    <3>1. endr["shutdown"] \in EndRec
      BY <1>1, TypeForm
    <3>2. x \in EndRec /\ x.at = "flush" /\ x.on = NoHandle /\ x.drain = endr["shutdown"].drain
      BY <1>1, <3>1 DEF EndRec, Places
    <3>3. endr' = [endr EXCEPT !["shutdown"] = x]
      BY <2>1 DEF ShutdownCollects
    <3>. HIDE DEF x
    <3>. QED
      BY <1>1, <3>2, <3>3, EnderReplaced
  <2>2. CASE owner # NoHandle
    <3>1. owner \in made /\ owner \in Objects
      BY <1>1, <2>2, TypeForm
    <3>2. PICK x \in EndRec : EnderIs("shutdown", x) /\ x.at = "called" /\ x.on = owner /\ x.drain = {}
      BY <1>1, <2>2, <3>1, CallIs DEF ShutdownCollects
    <3>. QED
      BY <3>1, <3>2
  <2>. QED
    BY <2>1, <2>2
<1>4. TypeOK' /\ Marks' /\ Drains'
  BY <1>1, <1>2, <1>3, CalledKeeps DEF ShutdownCollects, object, table, bounds
<1>5. endr'["sweep"] = endr["sweep"] /\ endr'["explicit"] = endr["explicit"]
  BY <1>3 DEF EnderIs, Enders
<1>6. made' = made /\ teardown' = "begun" /\ UNCHANGED run
  BY DEF ShutdownCollects, object
<1>7. x.on \in made \cup {NoHandle} /\ (x.at \in Ending => x.on # NoHandle)
  BY <1>1, <1>3, TypeForm, HandlesApart DEF Ending
<1>8. Located'
  BY <1>1, <1>3, <1>5, <1>6, <1>7 DEF Placed, Located, EnderIs, Enders
<1>9. SweptOnce'
  <2>1. SweepHandle \in made => endr["sweep"].on = SweepHandle
    BY <1>1, HandlesApart DEF Placed, SweptOnce
  <2>. QED
    BY <1>1, <1>5, <1>6, <2>1 DEF Placed, SweptOnce
<1>. QED
  BY <1>4, <1>8, <1>9 DEF IInv, Placed

(* An ender that held no handle is at rest: shutdown done or dropped, or a  *)
(* conversation the sweep could not load.                                    *)
LEMMA RestsKeeps ==
  ASSUME IInv, NEW e \in Enders,
         endr[e].at = "flush" \/ (e = "sweep" /\ endr[e].at = "listed"),
         endr' = [endr EXCEPT ![e] = IdleEnd],
         UNCHANGED <<store, made, turns, ends, ended, owner, tasks, task, run, crashes>>,
         fails' \in 0..MaxFails,
         teardown' = teardown \/ teardown' = "done"
  PROVE  IInv'
<1>1. TypeOK /\ Placed /\ EnderIs(e, IdleEnd) /\ teardown' \in {"none", "begun", "done"}
  BY Idle, EnderReplaced, TypeForm DEF IInv
<1>2. ~Acting(e) /\ endr[e].on # SweepHandle
  <2>1. CASE endr[e].at = "flush"
    BY <1>1, <2>1, HandlesApart DEF Placed, Located, Acting
  <2>2. CASE e = "sweep" /\ endr[e].at = "listed"
    BY <1>1, <2>2, HandlesApart DEF Placed, SweptOnce, Acting
  <2>. QED
    BY <2>1, <2>2
<1>3. TypeOK' /\ Marks' /\ Drains'
  BY <1>1, <1>2, Idle, CalledKeeps
<1>4. Located'
  BY <1>1, Idle, HandlesApart DEF Placed, Located, EnderIs, Enders, Ending
<1>5. SweptOnce'
  BY <1>1, <1>2, Idle DEF Placed, SweptOnce, EnderIs, Enders
<1>. QED
  BY <1>3, <1>4, <1>5 DEF IInv, Placed

LEMMA ShutdownDoneKeeps ==
  ASSUME IInv, ShutdownDone
  PROVE  IInv'
<1>1. "shutdown" \in Enders /\ fails \in 0..MaxFails
  BY TypeForm DEF IInv, Enders
<1>. QED
  BY <1>1, RestsKeeps DEF ShutdownDone, object, table, bounds

LEMMA SweepListsKeeps ==
  ASSUME IInv, SweepLists
  PROVE  IInv'
<1>. DEFINE x == [endr["sweep"] EXCEPT !.at = "listed"]
<1>1. /\ TypeOK /\ Placed /\ "sweep" \in Enders /\ endr["sweep"] \in EndRec
      /\ endr["sweep"].on = NoHandle /\ endr["shutdown"].on # SweepHandle
  BY TypeForm DEF Enders, SweepLists, IInv, Placed, SweptOnce
<1>2. /\ x \in EndRec /\ x.at = "listed" /\ x.on = NoHandle /\ x.drain = endr["sweep"].drain
  BY <1>1 DEF EndRec, Places
<1>3. endr' = [endr EXCEPT !["sweep"] = x]
  BY DEF SweepLists
<1>. HIDE DEF x
<1>4. EnderIs("sweep", x)
  BY <1>1, <1>2, <1>3, EnderReplaced
<1>5. TypeOK' /\ Marks' /\ Drains'
  BY <1>1, <1>2, <1>4, CalledKeeps, TypeForm DEF SweepLists, Acting, object, table, bounds
<1>6. endr'["shutdown"] = endr["shutdown"] /\ endr'["explicit"] = endr["explicit"]
  BY <1>4 DEF EnderIs, Enders
<1>7. made' = made /\ teardown' = teardown /\ UNCHANGED run
  BY DEF SweepLists, object
<1>8. Located'
  BY <1>1, <1>2, <1>4, <1>6, <1>7 DEF Placed, Located, EnderIs, Enders, Ending
<1>9. SweepHandle \notin made
  BY <1>1, HandlesApart DEF Placed, SweptOnce
<1>10. SweptOnce'
  BY <1>2, <1>4, <1>7, <1>9 DEF Placed, SweptOnce, EnderIs
<1>. QED
  BY <1>5, <1>8, <1>10 DEF IInv, Placed

(* A call to the store that fails leaves the sweep, or its page, behind. *)
LEMMA SweepListFailsKeeps ==
  ASSUME IInv, SweepListFails
  PROVE  IInv'
<1>1. TypeOK /\ Placed /\ Marks /\ Drains
  BY DEF IInv
<1>2. fails' \in 0..MaxFails
  BY <1>1, TypeForm, LifecycleAssumption DEF SweepListFails
<1>3. TypeOK'
  BY <1>1, <1>2, TypeForm DEF TypeOK, SweepListFails, object, table, RunRec, EndRec, Places
<1>4. Placed'
  BY <1>1, PlacesUntouched DEF SweepListFails, Placed, Located, object
<1>5. Marks' /\ Drains'
  BY <1>1, MarksUntouched, DrainsUntouched DEF SweepListFails, object, table
<1>. QED
  BY <1>3, <1>4, <1>5 DEF IInv

LEMMA SweepLoadFailsKeeps ==
  ASSUME IInv, SweepLoadFails
  PROVE  IInv'
<1>1. "sweep" \in Enders /\ fails' \in 0..MaxFails
  BY TypeForm, LifecycleAssumption DEF IInv, Enders, SweepLoadFails
<1>. QED
  BY <1>1, RestsKeeps DEF SweepLoadFails, object, table

(* The handle is loaded anew, which no end holds. *)
LEMMA SweepLoadsKeeps ==
  ASSUME IInv, SweepLoads
  PROVE  IInv'
<1>. DEFINE x == [endr["sweep"] EXCEPT !.at = "loaded", !.on = SweepHandle]
<1>1. /\ TypeOK /\ Placed /\ Marks /\ Drains /\ "sweep" \in Enders /\ endr["sweep"] \in EndRec
      /\ endr["sweep"].at = "listed" /\ SweepHandle \notin made /\ SweepHandle # NoHandle
  BY TypeForm, HandlesApart DEF Enders, SweepLoads, IInv, Placed, SweptOnce
<1>2. /\ x \in EndRec /\ x.at = "loaded" /\ x.on = SweepHandle /\ x.drain = endr["sweep"].drain
  BY <1>1, HandlesApart DEF EndRec, Places
<1>3. endr' = [endr EXCEPT !["sweep"] = x]
  BY DEF SweepLoads
<1>. HIDE DEF x
<1>4. EnderIs("sweep", x)
  BY <1>1, <1>2, <1>3, EnderReplaced
<1>5. /\ \A e \in Enders : endr[e].on # SweepHandle
      /\ owner # SweepHandle /\ made' = made \cup {SweepHandle}
  BY <1>1, TypeForm DEF Placed, Located, SweepLoads
<1>6. store.turns \in SUBSET Runs /\ store.ended \in BOOLEAN
  BY <1>1, TypeForm DEF State
<1>7. /\ turns' \in [Objects -> SUBSET Runs] /\ ended' \in [Objects -> BOOLEAN] /\ ends' \in [Objects -> Nat]
      /\ ends'[SweepHandle] = 0
      /\ \A g \in Objects \ {SweepHandle} : ended'[g] = ended[g] /\ ends'[g] = ends[g]
  BY <1>1, <1>6, TypeForm, HandlesApart DEF SweepLoads
<1>8. TypeOK'
  BY <1>1, <1>4, <1>5, <1>7, TypeForm, HandlesApart
     DEF TypeOK, SweepLoads, EnderIs, table, bounds, RunRec, EndRec, Places
<1>9. endr'["shutdown"] = endr["shutdown"] /\ endr'["explicit"] = endr["explicit"]
  BY <1>4 DEF EnderIs, Enders
<1>10. Located'
  BY <1>1, <1>2, <1>4, <1>5, <1>9 DEF Placed, Located, EnderIs, Enders, Ending, SweepLoads
<1>11. SweptOnce'
  BY <1>2, <1>4 DEF SweptOnce, EnderIs
<1>12. Marks'
  <2>1. \A f \in Enders : Acting(f)' => f # "sweep" /\ Acting(f) /\ endr'[f] = endr[f]
    BY <1>2, <1>4 DEF EnderIs, Acting
  <2>2. \A f \in Enders : Acting(f) => endr[f].on \in Objects \ {SweepHandle}
    BY <1>1, <1>5, TypeForm DEF Placed, Located, Acting, Ending
  <2>3. Once'
    <3>1. \A g \in Objects : ends'[g] \in {0, 1} /\ (ends'[g] = 1 => ended'[g])
      BY <1>1, <1>7 DEF Marks, Once
    <3>. QED
      BY <1>1, <1>7, <2>1, <2>2, <3>1 DEF Marks, Once
  <2>4. Unmade'
    BY <1>1, <1>5, <1>7, HandlesApart DEF Marks, Unmade
  <2>5. Disowning'
    <3>1. \A f \in Enders : endr[f].at = "marked" => endr'[f] = endr[f]
      BY <1>1, <1>4 DEF EnderIs
    <3>. QED
      BY <1>1, <1>5, <1>7, <3>1, TypeForm DEF Marks, Disowning, SweepLoads, table
  <2>. QED
    BY <2>3, <2>4, <2>5 DEF Marks
<1>13. Drains'
  BY <1>1, <1>2, <1>4 DEF Drains, Spawned, DrainPrecedesFinalize, EnderIs, SweepLoads, table
<1>. QED
  BY <1>8, <1>10, <1>11, <1>12, <1>13 DEF IInv, Placed

LEMMA SweepRegistersKeeps ==
  ASSUME IInv, SweepRegisters
  PROVE  IInv'
<1>1. /\ TypeOK /\ Placed /\ Marks /\ Drains /\ "sweep" \in Enders
      /\ endr["sweep"].at = "loaded" /\ endr["sweep"].on = SweepHandle
      /\ SweepHandle \in Objects /\ SweepHandle # NoHandle
  BY HandlesApart DEF Enders, SweepRegisters, IInv, Placed, SweptOnce
<1>2. PICK x \in EndRec : EnderIs("sweep", x) /\ x.at = "called" /\ x.on = SweepHandle /\ x.drain = {}
  BY <1>1, CallIs DEF SweepRegisters
<1>3. /\ SweepHandle \in made /\ tasks' = tasks
      /\ owner' = owner \/ (owner' = SweepHandle /\ owner = NoHandle /\ ~ended[SweepHandle])
  BY <1>1 DEF Placed, Located, SweepRegisters, Register, table
<1>4. TypeOK'
  BY <1>1, <1>2, <1>3, TypeForm
     DEF TypeOK, SweepRegisters, EnderIs, object, bounds, RunRec, EndRec, Places
<1>5. endr'["shutdown"] = endr["shutdown"] /\ endr'["explicit"] = endr["explicit"]
  BY <1>2 DEF EnderIs, Enders
<1>6. Located'
  BY <1>1, <1>2, <1>3, <1>5 DEF Placed, Located, EnderIs, Enders, SweepRegisters, object
<1>7. SweptOnce'
  BY <1>2 DEF SweptOnce, EnderIs
<1>8. Marks'
  <2>1. \A f \in Enders : Acting(f)' => f # "sweep" /\ Acting(f) /\ endr'[f] = endr[f]
    BY <1>2 DEF EnderIs, Acting
  <2>2. Once' /\ Unmade'
    BY <1>1, <2>1 DEF Marks, Once, Unmade, SweepRegisters, object
  <2>3. \A f \in Enders : endr[f].at = "marked" => endr'[f] = endr[f]
    BY <1>1, <1>2 DEF EnderIs
  <2>4. Disowning'
    BY <1>1, <1>3, <2>3 DEF Marks, Disowning, SweepRegisters, object
  <2>. QED
    BY <2>2, <2>4 DEF Marks
<1>9. Drains'
  BY <1>1, <1>2, <1>3 DEF Drains, Spawned, DrainPrecedesFinalize, EnderIs, SweepRegisters
<1>. QED
  BY <1>4, <1>6, <1>7, <1>8, <1>9 DEF IInv, Placed

-----------------------------------------------------------------------------
(* Conversation::end_with *)

LEMMA EndMarksKeeps ==
  ASSUME IInv, NEW e \in Enders, EndMarks(e)
  PROVE  IInv'
<1>. DEFINE x == [endr[e] EXCEPT !.at = "marked"]
            h == endr[e].on
<1>1. /\ TypeOK /\ Placed /\ Marks /\ Drains /\ endr[e] \in EndRec
      /\ endr[e].at = "called" /\ ~ended[h] /\ h \in made /\ h \in Objects
  BY TypeForm DEF EndMarks, IInv, Placed, Located, Ending
<1>2. x \in EndRec /\ x.at = "marked" /\ x.on = h /\ x.drain = endr[e].drain
  BY <1>1 DEF EndRec, Places
<1>3. endr' = [endr EXCEPT ![e] = x]
  BY DEF EndMarks
<1>. HIDE DEF x, h
<1>4. EnderIs(e, x)
  BY <1>1, <1>2, <1>3, EnderReplaced
<1>5. /\ ended' \in [Objects -> BOOLEAN] /\ ended'[h]
      /\ \A g \in Objects \ {h} : ended'[g] = ended[g]
  BY <1>1, TypeForm DEF EndMarks, h
<1>6. TypeOK'
  BY <1>1, <1>4, <1>5, TypeForm DEF TypeOK, EndMarks, EnderIs, table, bounds, RunRec, EndRec, Places
<1>7. \A f \in Enders : endr'[f].on = endr[f].on /\ (endr'[f].at = endr[f].at \/ f = e)
  BY <1>1, <1>2, <1>4 DEF EnderIs, h
<1>8. Placed'
  <2>1. Located'
    BY <1>1, <1>2, <1>4, <1>7 DEF Placed, Located, EnderIs, EndMarks, Ending, Enders
  <2>2. SweptOnce'
    BY <1>1, <1>2, <1>4, <1>7 DEF Placed, SweptOnce, EnderIs, EndMarks, Enders
  <2>. QED
    BY <2>1, <2>2 DEF Placed
<1>9. Marks'
  <2>1. \A f \in Enders : Acting(f) => endr[f].on # h
    BY <1>1 DEF Marks, Once
  <2>2. \A f \in Enders \ {e} : Acting(f)' => Acting(f) /\ endr'[f] = endr[f]
    BY <1>4 DEF EnderIs, Acting
  <2>3. ends[h] = 0
    BY <1>1 DEF Marks, Once
  <2>4. \A g \in Objects : ended[g] => ended'[g]
    BY <1>5, <1>1
  <2>5. \A f \in Enders : Acting(f) => endr[f].on \in Objects
    BY <1>1, TypeForm DEF Placed, Located, Acting, Ending
  <2>6. Once'
    <3>1. \A f \in Enders : Acting(f)' => ended'[endr'[f].on] /\ ends[endr'[f].on] = 0
      BY <1>1, <1>2, <1>4, <1>5, <2>2, <2>3, <2>4, <2>5 DEF Marks, Once, EnderIs
    <3>2. \A f, g \in Enders : Acting(f)' /\ Acting(g)' /\ endr'[f].on = endr'[g].on => f = g
      BY <1>1, <1>2, <1>4, <2>1, <2>2 DEF Marks, Once, EnderIs
    <3>. QED
      BY <1>1, <2>4, <3>1, <3>2 DEF Marks, Once, EndMarks
  <2>7. Unmade'
    BY <1>1, <1>5, HandlesApart DEF Marks, Unmade, EndMarks
  <2>8. Disowning'
    <3>1. \A f \in Enders : endr[f].at = "marked" => endr'[f] = endr[f]
      BY <1>1, <1>4 DEF EnderIs
    <3>. QED
      BY <1>1, <1>2, <1>4, <1>5, <3>1, TypeForm DEF Marks, Disowning, EndMarks, EnderIs, table
  <2>. QED
    BY <2>6, <2>7, <2>8 DEF Marks
<1>10. Drains'
  BY <1>1, <1>2, <1>4 DEF Drains, Spawned, DrainPrecedesFinalize, EnderIs, EndMarks, table
<1>. QED
  BY <1>6, <1>8, <1>9, <1>10 DEF IInv

LEMMA RemoveEntryKeeps ==
  ASSUME IInv, NEW e \in Enders, RemoveEntry(e)
  PROVE  IInv'
<1>. DEFINE x == [endr[e] EXCEPT !.at = "drain", !.drain = tasks]
<1>1. TypeOK /\ Placed /\ Marks /\ Drains /\ endr[e] \in EndRec /\ endr[e].at = "marked"
  BY TypeForm DEF RemoveEntry, IInv
<1>2. x \in EndRec /\ x.at = "drain" /\ x.on = endr[e].on /\ x.drain = tasks
  BY <1>1, TypeForm DEF EndRec, Places
<1>3. endr' = [endr EXCEPT ![e] = x]
  BY DEF RemoveEntry
<1>. HIDE DEF x
<1>4. EnderIs(e, x)
  BY <1>1, <1>2, <1>3, EnderReplaced
<1>5. TypeOK'
  BY <1>1, <1>4, TypeForm DEF TypeOK, RemoveEntry, EnderIs, object, bounds, RunRec, EndRec, Places
<1>6. Placed'
  <2>1. Located'
    BY <1>1, <1>2, <1>4 DEF Placed, Located, EnderIs, RemoveEntry, object, Ending, Enders
  <2>2. SweptOnce'
    BY <1>1, <1>2, <1>4 DEF Placed, SweptOnce, EnderIs, RemoveEntry, object, Enders
  <2>. QED
    BY <2>1, <2>2 DEF Placed
<1>7. Marks'
  <2>1. \A f \in Enders : (Acting(f)' <=> Acting(f)) /\ endr'[f].on = endr[f].on
    BY <1>1, <1>2, <1>4 DEF EnderIs, Acting
  <2>2. Once' /\ Unmade'
    BY <1>1, <2>1, ZenonT(60) DEF Marks, Once, Unmade, RemoveEntry, object
  <2>3. Disowning'
    BY DEF Disowning, RemoveEntry
  <2>. QED
    BY <2>2, <2>3 DEF Marks
<1>8. Drains'
  BY <1>1, <1>2, <1>4 DEF Drains, Spawned, DrainPrecedesFinalize, EnderIs, RemoveEntry
<1>. QED
  BY <1>5, <1>6, <1>7, <1>8 DEF IInv

(* The end goes on with its drain, its hook and its save. *)
LEMMA ProceedsKeeps ==
  ASSUME IInv, NEW e \in Enders, NEW x \in EndRec, EnderIs(e, x),
         endr[e].at \in {"drain", "finalize", "hook", "save"},
         x.at \in {"drain", "finalize", "hook", "save", "notify"},
         x.on = endr[e].on, x.drain \subseteq endr[e].drain,
         x.at \in {"finalize", "hook", "save", "notify"} =>
            \A r \in x.drain : task[r] = "running" => r \in x.told,
         store' \in State, fails' \in 0..MaxFails,
         UNCHANGED <<object, table, task, run, teardown, crashes>>
  PROVE  IInv'
<1>1. TypeOK /\ Placed /\ Marks /\ Drains
  BY DEF IInv
<1>2. TypeOK'
  BY <1>1, TypeForm DEF TypeOK, EnderIs, object, table, RunRec, EndRec, Places
<1>3. Located'
  BY <1>1 DEF Placed, Located, EnderIs, object, Ending, Enders
<1>4. SweptOnce'
  BY <1>1 DEF Placed, SweptOnce, EnderIs, object, Enders
<1>5. Marks'
  <2>1. \A f \in Enders : (Acting(f)' <=> Acting(f)) /\ endr'[f].on = endr[f].on
    BY DEF EnderIs, Acting
  <2>2. \A f \in Enders : endr[f].at = "marked" => endr'[f] = endr[f]
    BY DEF EnderIs
  <2>3. Once' /\ Unmade'
    BY <1>1, <2>1 DEF Marks, Once, Unmade, object
  <2>4. Disowning'
    BY <1>1, <2>2 DEF Marks, Disowning, object, table
  <2>. QED
    BY <2>3, <2>4 DEF Marks
<1>6. Drains'
  <2>1. Spawned'
    BY <1>1 DEF Drains, Spawned, EnderIs, table
  <2>2. DrainPrecedesFinalize'
    BY <1>1 DEF Drains, DrainPrecedesFinalize, EnderIs
  <2>. QED
    BY <2>1, <2>2 DEF Drains
<1>. QED
  BY <1>2, <1>3, <1>4, <1>5, <1>6 DEF IInv, Placed

LEMMA DrainKeeps ==
  ASSUME IInv, NEW e \in Enders, DrainOne(e) \/ DrainTimesOut(e)
  PROVE  IInv'
<1>1. TypeOK /\ endr[e] \in EndRec /\ store \in State /\ fails \in 0..MaxFails
  BY TypeForm DEF IInv
<1>2. CASE DrainOne(e)
  <2>1. PICK r \in endr[e].drain :
          endr' = [endr EXCEPT ![e].drain = @ \ {r},
                     ![e].told = IF task[r] = "panicked" THEN @ \cup {r} ELSE @]
    BY <1>2 DEF DrainOne
  <2>. DEFINE t == IF task[r] = "panicked" THEN endr[e].told \cup {r} ELSE endr[e].told
              x == [endr[e] EXCEPT !.drain = @ \ {r}, !.told = t]
  <2>2. t \subseteq Runs
    BY <1>1 DEF EndRec
  <2>3. endr' = [endr EXCEPT ![e] = x]
    BY <2>1
  <2>. HIDE DEF t
  <2>4. x \in EndRec /\ x.at = endr[e].at /\ x.on = endr[e].on /\ x.drain \subseteq endr[e].drain
    BY <1>1, <2>2 DEF EndRec
  <2>. HIDE DEF x
  <2>5. EnderIs(e, x) /\ endr[e].at = "drain"
    BY <1>1, <1>2, <2>3, <2>4, EnderReplaced DEF DrainOne
  <2>. QED
    BY <1>1, <1>2, <2>4, <2>5, ProceedsKeeps DEF DrainOne, bounds
<1>3. CASE DrainTimesOut(e)
  <2>. DEFINE x == [endr[e] EXCEPT !.at = "finalize", !.told = @ \cup endr[e].drain]
  <2>1. /\ x \in EndRec /\ x.at = "finalize" /\ x.on = endr[e].on
        /\ x.drain = endr[e].drain /\ x.drain \subseteq x.told
    BY <1>1 DEF EndRec, Places
  <2>2. endr' = [endr EXCEPT ![e] = x]
    BY <1>3 DEF DrainTimesOut
  <2>. HIDE DEF x
  <2>3. EnderIs(e, x) /\ endr[e].at = "drain"
    BY <1>1, <1>3, <2>1, <2>2, EnderReplaced DEF DrainTimesOut
  <2>. QED
    BY <1>1, <1>3, <2>1, <2>3, ProceedsKeeps DEF DrainTimesOut, bounds
<1>. QED
  BY <1>2, <1>3

LEMMA FinalizeBeginsKeeps ==
  ASSUME IInv, NEW e \in Enders, FinalizeBegins(e)
  PROVE  IInv'
<1>. DEFINE x == [endr[e] EXCEPT !.at = "hook"]
<1>1. /\ TypeOK /\ Drains /\ endr[e] \in EndRec /\ endr[e].at \in {"drain", "finalize"}
      /\ store \in State /\ fails \in 0..MaxFails
  BY TypeForm DEF IInv, FinalizeBegins
<1>2. endr' = [endr EXCEPT ![e] = x]
  BY DEF FinalizeBegins
<1>3. /\ x \in EndRec /\ x.at = "hook" /\ x.on = endr[e].on
      /\ x.drain = endr[e].drain /\ x.told = endr[e].told
  BY <1>1 DEF EndRec, Places
<1>. HIDE DEF x
<1>4. EnderIs(e, x)
  BY <1>1, <1>2, <1>3, EnderReplaced
<1>5. \A r \in x.drain : task[r] = "running" => r \in x.told
  BY <1>1, <1>3 DEF FinalizeBegins, Drains, DrainPrecedesFinalize
<1>. QED
  BY <1>1, <1>3, <1>4, <1>5, ProceedsKeeps DEF FinalizeBegins, bounds

LEMMA FinalizeReturnsKeeps ==
  ASSUME IInv, NEW e \in Enders, FinalizeReturns(e)
  PROVE  IInv'
<1>. DEFINE s == Snapshot(endr[e].on)
            x == [endr[e] EXCEPT !.at = "save", !.snap = s]
<1>1. /\ TypeOK /\ Drains /\ endr[e] \in EndRec /\ endr[e].at = "hook"
      /\ store \in State /\ fails \in 0..MaxFails
  BY TypeForm DEF IInv, FinalizeReturns
<1>2. endr[e].on \in Objects
  BY <1>1, TypeForm DEF IInv, Placed, Located, Ending
<1>3. s \in State
  BY <1>1, <1>2, SnapshotTyped
<1>4. endr' = [endr EXCEPT ![e] = x]
  BY DEF FinalizeReturns
<1>. HIDE DEF s
<1>5. /\ x \in EndRec /\ x.at = "save" /\ x.on = endr[e].on
      /\ x.drain = endr[e].drain /\ x.told = endr[e].told
  BY <1>1, <1>3 DEF EndRec, Places
<1>. HIDE DEF x
<1>6. EnderIs(e, x)
  BY <1>1, <1>4, <1>5, EnderReplaced
<1>7. \A r \in x.drain : task[r] = "running" => r \in x.told
  BY <1>1, <1>5 DEF Drains, DrainPrecedesFinalize
<1>. QED
  BY <1>1, <1>5, <1>6, <1>7, ProceedsKeeps DEF FinalizeReturns, bounds

LEMMA SaveEndKeeps ==
  ASSUME IInv, NEW e \in Enders, SaveEnd(e)
  PROVE  IInv'
<1>. DEFINE x == [endr[e] EXCEPT !.at = "notify", !.snap = Empty]
<1>1. TypeOK /\ Drains /\ endr[e] \in EndRec /\ endr[e].at = "save" /\ endr[e].snap \in State
  BY TypeForm DEF IInv, SaveEnd, EndRec
<1>2. endr' = [endr EXCEPT ![e] = x]
  BY DEF SaveEnd
<1>3. /\ x \in EndRec /\ x.at = "notify" /\ x.on = endr[e].on
      /\ x.drain = endr[e].drain /\ x.told = endr[e].told
  BY <1>1, Idle DEF EndRec, Places
<1>. HIDE DEF x
<1>4. EnderIs(e, x)
  BY <1>1, <1>2, <1>3, EnderReplaced
<1>5. store' \in State /\ fails' \in 0..MaxFails
  BY <1>1, SaveTyped DEF SaveEnd
<1>6. \A r \in x.drain : task[r] = "running" => r \in x.told
  BY <1>1, <1>3 DEF Drains, DrainPrecedesFinalize
<1>. QED
  BY <1>1, <1>3, <1>4, <1>5, <1>6, ProceedsKeeps DEF SaveEnd

(* An end is over.  The handle of the sweep goes with the last end on it:    *)
(* by then the table has nothing of it, since whoever marked it removed the  *)
(* entry, and whoever is still to remove it holds it.                        *)
LEMMA LetGoKeeps ==
  ASSUME IInv, NEW e \in Enders, NEW at \in {"idle", "flush"}, LetGo(e, at),
         endr[e].at \in Ending \ {"marked"}, ended[endr[e].on],
         ends' \in [Objects -> Nat],
         \A g \in Objects : \/ ends'[g] = ends[g]
                            \/ g = endr[e].on /\ Acting(e) /\ ends'[g] = 1,
         UNCHANGED <<store, turns, ended, table, task, run, teardown, bounds>>
  PROVE  IInv'
<1>. DEFINE x == [IdleEnd EXCEPT !.at = at]
<1>1. TypeOK /\ Placed /\ Marks /\ Drains
  BY DEF IInv
<1>2. /\ x \in EndRec /\ x.at = at
      /\ x.on = NoHandle /\ x.drain = {}
  BY DEF IdleEnd, EndRec, Places, Empty, State
<1>3. endr' = [endr EXCEPT ![e] = x]
  BY DEF LetGo
<1>. HIDE DEF x
<1>4. EnderIs(e, x)
  BY <1>1, <1>2, <1>3, EnderReplaced
<1>5. /\ made' \subseteq made /\ made \ {SweepHandle} \subseteq made'
      /\ SweepHandle \in made' <=> /\ SweepHandle \in made
                                   /\ \E f \in {"sweep", "shutdown"} : endr'[f].on = SweepHandle
  <2>1. CASE endr'["sweep"].on = SweepHandle \/ endr'["shutdown"].on = SweepHandle
    BY <2>1 DEF LetGo
  <2>2. CASE ~(endr'["sweep"].on = SweepHandle \/ endr'["shutdown"].on = SweepHandle)
    BY <2>2 DEF LetGo
  <2>. QED
    BY <2>1, <2>2
<1>6. \A f \in Enders : f # "explicit" => f \in {"sweep", "shutdown"}
  BY DEF Enders
<1>7. \A f \in Enders \ {e} : endr'[f] = endr[f]
  BY <1>4 DEF EnderIs
<1>8. endr[e].on \in made /\ \A f \in Enders : endr'[f].on \in made' \cup {NoHandle}
  <2>1. endr[e].on \in made
    BY <1>1 DEF Placed, Located
  <2>2. \A f \in Enders : endr'[f].on \in made \cup {NoHandle}
    BY <1>1, <1>2, <1>4, <1>7 DEF Placed, Located, EnderIs
  <2>3. endr'["explicit"].on # SweepHandle
    BY <1>1, <1>2, <1>4, <1>7, HandlesApart DEF Placed, Located, EnderIs, Enders
  <2>. QED
    BY <1>5, <1>6, <2>1, <2>2, <2>3
<1>9. owner' \in made' \cup {NoHandle}
  <2>1. owner' = owner /\ owner \in made \cup {NoHandle}
    BY <1>1, TypeForm DEF table
  <2>2. CASE owner = SweepHandle
    <3>. SUFFICES ASSUME SweepHandle \notin made'
                  PROVE  FALSE
      BY <2>1, <2>2
    <3>1. SweepHandle \in made /\ \A f \in {"sweep", "shutdown"} : endr'[f].on # SweepHandle
      BY <1>5, <2>1, <2>2, HandlesApart
    <3>2. endr[e].on = SweepHandle
      <4>1. PICK f \in {"sweep", "shutdown"} : endr[f].on = SweepHandle
        BY <1>1, <3>1 DEF Placed, SweptOnce
      <4>. QED
        BY <1>7, <3>1, <4>1 DEF Enders
    <3>3. PICK f \in Enders : endr[f].at = "marked" /\ endr[f].on = SweepHandle
      BY <1>1, <2>2, <3>2, HandlesApart DEF Marks, Disowning
    <3>4. f # e /\ f # "explicit"
      BY <1>1, <3>3 DEF Placed, Located
    <3>. QED
      BY <1>6, <1>7, <3>1, <3>3, <3>4
  <2>3. CASE owner # SweepHandle
    BY <1>5, <2>1, <2>3
  <2>. QED
    BY <2>2, <2>3
<1>10. TypeOK'
  BY <1>1, <1>4, <1>5, <1>9, TypeForm DEF TypeOK, EnderIs, table, bounds, RunRec, EndRec, Places
<1>11. Located'
  BY <1>1, <1>2, <1>4, <1>7, <1>8, HandlesApart DEF Placed, Located, EnderIs, Enders, Ending
<1>12. SweptOnce'
  BY <1>1, <1>2, <1>4, <1>5, <1>7 DEF Placed, SweptOnce, EnderIs, Enders
<1>13. Marks'
  <2>1. \A f \in Enders : Acting(f)' => f # e /\ Acting(f) /\ endr'[f] = endr[f]
    BY <1>2, <1>4, <1>7 DEF EnderIs, Acting
  <2>2. Unmade'
    BY <1>1, <1>5, <1>8, HandlesApart DEF Marks, Unmade
  <2>3. Once'
    <3>1. \A g \in Objects : ends'[g] \in {0, 1} /\ (ends'[g] = 1 => ended'[g])
      BY <1>1 DEF Marks, Once
    <3>2. ASSUME NEW f \in Enders, Acting(f)'
          PROVE  ended'[endr'[f].on] /\ ends'[endr'[f].on] = 0
      <4>1. f # e /\ Acting(f) /\ endr'[f] = endr[f] /\ endr[f].on \in Objects
        BY <1>1, <2>1, <3>2, TypeForm DEF Placed, Located, Acting, Ending
      <4>2. ended[endr[f].on] /\ ends[endr[f].on] = 0 /\ (Acting(e) => endr[e].on # endr[f].on)
        BY <1>1, <4>1 DEF Marks, Once
      <4>. QED
        BY <4>1, <4>2
    <3>3. \A f, g \in Enders : Acting(f)' /\ Acting(g)' /\ endr'[f].on = endr'[g].on => f = g
      BY <1>1, <2>1 DEF Marks, Once
    <3>. QED
      BY <3>1, <3>2, <3>3 DEF Once
  <2>4. Disowning'
    BY <1>1, <1>7 DEF Marks, Disowning, table
  <2>. QED
    BY <2>2, <2>3, <2>4 DEF Marks
<1>14. Drains'
  BY <1>1, <1>2, <1>4, <1>7 DEF Drains, Spawned, DrainPrecedesFinalize, EnderIs, table
<1>. QED
  BY <1>10, <1>11, <1>12, <1>13, <1>14 DEF IInv, Placed

LEMMA EndIsNoOpKeeps ==
  ASSUME IInv, NEW e \in Enders, EndIsNoOp(e)
  PROVE  IInv'
<1>1. ends' = ends /\ ends \in [Objects -> Nat] /\ endr[e].at \in Ending \ {"marked"}
  BY TypeForm DEF IInv, EndIsNoOp, Ending
<1>. QED
  BY <1>1, LetGoKeeps DEF EndIsNoOp, Return, table, bounds

LEMMA NotifyEndedKeeps ==
  ASSUME IInv, NEW e \in Enders, NotifyEnded(e)
  PROVE  IInv'
<1>1. TypeOK /\ Acting(e) /\ endr[e].at \in Ending \ {"marked"}
  BY DEF IInv, NotifyEnded, Acting, Ending
<1>2. ended[endr[e].on] /\ ends[endr[e].on] = 0 /\ ends \in [Objects -> Nat]
  BY <1>1, TypeForm DEF IInv, Marks, Once
<1>3. endr[e].on \in Objects
  BY <1>1, TypeForm DEF IInv, Placed, Located, Ending
<1>4. /\ ends' \in [Objects -> Nat]
      /\ \A g \in Objects : ends'[g] = ends[g] \/ (g = endr[e].on /\ ends'[g] = 1)
  <2>. DEFINE h == endr[e].on
  <2>1. ends' = [ends EXCEPT ![h] = ends[h] + 1] /\ ends[h] = 0 /\ h \in Objects
    BY <1>2, <1>3 DEF NotifyEnded
  <2>. HIDE DEF h
  <2>2. ends' = [ends EXCEPT ![h] = 1]
    BY <2>1
  <2>3. \A g \in Objects : ends'[g] = ends[g] \/ (g = h /\ ends'[g] = 1)
    BY <1>2, <2>1, <2>2
  <2>4. ends' \in [Objects -> Nat]
    BY <1>2, <2>2
  <2>. QED
    BY <2>3, <2>4 DEF h
<1>. QED
  BY <1>1, <1>2, <1>4, LetGoKeeps DEF NotifyEnded, Return, table, bounds

LEMMA AbandonKeeps ==
  ASSUME IInv, NEW e \in Enders, Abandon(e)
  PROVE  IInv'
<1>1. CASE endr[e].at \in {"drain", "hook"}
  <2>1. TypeOK /\ Acting(e) /\ endr[e].at \in Ending \ {"marked"}
    BY <1>1 DEF IInv, Acting, Ending
  <2>2. ended[endr[e].on] /\ ends' = ends /\ ends \in [Objects -> Nat]
    BY <2>1, TypeForm DEF IInv, Abandon, Marks, Once
  <2>. QED
    BY <2>1, <2>2, LetGoKeeps DEF Abandon, table, bounds
<1>2. CASE endr[e].at = "flush"
  <2>1. endr' = [endr EXCEPT ![e] = IdleEnd]
    <3>1. IdleEnd = [IdleEnd EXCEPT !.at = "idle"]
      BY DEF IdleEnd
    <3>2. endr' = [endr EXCEPT ![e] = [IdleEnd EXCEPT !.at = "idle"]]
      BY DEF Abandon, LetGo
    <3>. QED
      BY <3>1, <3>2
  <2>2. TypeOK /\ Placed /\ endr[e].on = NoHandle /\ EnderIs(e, IdleEnd) /\ fails \in 0..MaxFails
    BY <1>2, <2>1, Idle, EnderReplaced, TypeForm DEF IInv, Placed, Located
  <2>3. SweepHandle \in made =>
          endr'["sweep"].on = SweepHandle \/ endr'["shutdown"].on = SweepHandle
    BY <2>2, HandlesApart DEF Placed, SweptOnce, EnderIs, Enders
  <2>4. made' = made
    BY <2>3 DEF Abandon, LetGo
  <2>. QED
    BY <1>2, <2>1, <2>2, <2>4, RestsKeeps DEF Abandon, table, bounds
<1>. QED
  BY <1>1, <1>2 DEF Abandon

-----------------------------------------------------------------------------
(* Nothing but the store is left after a crash. *)
LEMMA CrashKeeps ==
  ASSUME IInv, Crash
  PROVE  IInv'
<1>1. /\ TypeOK /\ "idle" \in Places
      /\ \A e \in Enders : endr'[e] = IdleEnd
      /\ \A r \in Runs : run'[r].at \in {"idle", "over"} /\ run'[r] \in RunRec
  <2>1. [IdleRun EXCEPT !.at = "over"] \in RunRec /\ [IdleRun EXCEPT !.at = "over"].at = "over"
    BY DEF IdleRun, RunRec, Empty, State
  <2>. QED
    BY <2>1, Idle DEF IInv, Crash, Places
<1>2. /\ made' = {} /\ owner' = NoHandle /\ tasks' = {} /\ teardown' = "none" /\ store' = store
      /\ fails' = fails
      /\ \A h \in Objects : ~ended'[h] /\ ends'[h] = 0
  BY DEF Crash
<1>3. TypeOK'
  <2>1. crashes' \in 0..MaxCrashes
    BY <1>1, TypeForm, LifecycleAssumption DEF Crash
  <2>2. run' \in [Runs -> RunRec] /\ endr' \in [Enders -> EndRec]
    BY <1>1, Idle DEF Crash
  <2>3. /\ turns' \in [Objects -> SUBSET Runs] /\ ended' \in [Objects -> BOOLEAN]
        /\ ends' \in [Objects -> Nat]
        /\ task' \in [Runs -> {"none", "running", "finished", "panicked"}]
    BY DEF Crash
  <2>. QED
    BY <1>1, <1>2, <2>1, <2>2, <2>3, TypeForm DEF TypeOK, RunRec, EndRec, Places
<1>4. /\ \A e \in Enders : /\ endr'[e].at = "idle" /\ endr'[e].on = NoHandle
                           /\ endr'[e].drain = {} /\ ~Acting(e)'
      /\ {"sweep", "shutdown", "explicit"} \subseteq Enders
  BY <1>1, Idle DEF Acting, Enders
<1>5. Located'
  BY <1>1, <1>2, <1>4, HandlesApart DEF Located, Ending
<1>6. SweptOnce'
  BY <1>2, <1>4 DEF SweptOnce
<1>7. Marks'
  BY <1>2, <1>4, HandlesApart DEF Marks, Unmade, Once, Disowning
<1>8. Drains'
  BY <1>2, <1>4 DEF Drains, Spawned, DrainPrecedesFinalize
<1>. QED
  BY <1>3, <1>5, <1>6, <1>7, <1>8 DEF IInv, Placed

LEMMA InitIInv == Init => IInv
<1>. SUFFICES ASSUME Init PROVE IInv
  OBVIOUS
<1>1. /\ \A e \in Enders : /\ endr[e].at = "idle" /\ endr[e].on = NoHandle
                           /\ endr[e].drain = {} /\ ~Acting(e)
      /\ {"sweep", "shutdown", "explicit"} \subseteq Enders
      /\ \A r \in Runs : run[r].at = "idle"
  BY Idle DEF Acting, Enders, Init
<1>2. TypeOK
  <2>1. run \in [Runs -> RunRec] /\ endr \in [Enders -> EndRec]
    BY Idle DEF Init
  <2>2. /\ turns \in [Objects -> SUBSET Runs] /\ ended \in [Objects -> BOOLEAN]
        /\ ends \in [Objects -> Nat]
        /\ task \in [Runs -> {"none", "running", "finished", "panicked"}]
    BY DEF Init
  <2>3. fails \in 0..MaxFails /\ crashes \in 0..MaxCrashes
    BY LifecycleAssumption DEF Init
  <2>4. /\ store \in State /\ made \subseteq Objects
        /\ owner \in made \cup {NoHandle} /\ tasks \subseteq Runs /\ tasks = {}
        /\ teardown \in {"none", "begun", "done"}
    BY Idle DEF Init
  <2>. QED
    BY <2>1, <2>2, <2>3, <2>4, TypeForm
<1>3. Placed
  BY <1>1, HandlesApart DEF Init, Placed, Located, SweptOnce, Ending
<1>4. Marks
  BY <1>1, HandlesApart DEF Init, Marks, Unmade, Once, Disowning
<1>5. Drains
  BY <1>1 DEF Init, Drains, Spawned, DrainPrecedesFinalize
<1>. QED
  BY <1>2, <1>3, <1>4, <1>5 DEF IInv

LEMMA StepIInv == IInv /\ [Next]_vars => IInv'
<1>. SUFFICES ASSUME IInv, [Next]_vars PROVE IInv'
  OBVIOUS
<1>1. ASSUME NEW h \in Handles, Create(h) \/ Restore(h) \/ EndExplicitly(h)
      PROVE  IInv'
  BY <1>1, CreateKeeps, RestoreKeeps, EndExplicitlyKeeps
<1>2. ASSUME NEW r \in Runs, (\E h \in Handles : PushTurn(r, h)) \/ RunStep(r) \/ TaskEnds(r)
      PROVE  IInv'
  BY <1>2, PushTurnKeeps, SnapTurnKeeps, SaveTurnKeeps, SpawnTaskKeeps, TaskEndsKeeps DEF RunStep
<1>3. CASE \/ Sweep \/ SweepListFails \/ SweepLoadFails
            \/ ShutdownCollects \/ ShutdownDone
  BY <1>3, SweepListsKeeps, SweepLoadsKeeps, SweepRegistersKeeps, SweepListFailsKeeps,
     SweepLoadFailsKeeps, ShutdownCollectsKeeps, ShutdownDoneKeeps DEF Sweep
<1>4. ASSUME NEW e \in Enders, EndStep(e) \/ FinalizeReturns(e) \/ Abandon(e)
      PROVE  IInv'
  BY <1>4, EndMarksKeeps, EndIsNoOpKeeps, RemoveEntryKeeps, DrainKeeps, FinalizeBeginsKeeps,
     FinalizeReturnsKeeps, SaveEndKeeps, NotifyEndedKeeps, AbandonKeeps DEF EndStep
<1>5. CASE Crash
  BY <1>5, CrashKeeps
<1>6. CASE UNCHANGED vars
  <2>1. TypeOK' /\ Placed' /\ Marks' /\ Drains'
    <3>. USE <1>6 DEF IInv, vars, object, table, bounds
    <3>1. TypeOK'
      BY DEF TypeOK
    <3>2. Placed'
      BY PlacesUntouched DEF Placed, Located
    <3>3. Marks' /\ Drains'
      BY MarksUntouched, DrainsUntouched
    <3>. QED
      BY <3>1, <3>2, <3>3
  <2>. QED
    BY <2>1 DEF IInv
<1>. QED
  BY <1>1, <1>2, <1>3, <1>4, <1>5, <1>6 DEF Next

-----------------------------------------------------------------------------
(* The state stays in its types. *)
THEOREM LifecycleTypes == Spec => []TypeOK
<1>1. IInv => TypeOK
  BY DEF IInv
<1>. QED
  BY <1>1, InitIInv, StepIInv, PTL DEF Spec

(* Of all the ends called on one handle, by the application, by the sweep    *)
(* and by shutdown, one performs the acts of end_with and notifies once, and *)
(* the table never keeps a conversation that ended: the flag is tested and   *)
(* set in one step, and who sets it removes the entry before it goes on.     *)
THEOREM HandlesEndOnce == Spec => []HandleEndsOnce
<1>1. IInv => HandleEndsOnce
  <2>. SUFFICES ASSUME IInv PROVE HandleEndsOnce
    OBVIOUS
  <2>1. EndedIsDisowned
    BY DEF IInv, Marks, Disowning, EndedIsDisowned
  <2>2. \A h \in made : ends[h] <= 1 /\ (ends[h] = 1 => ended[h])
    BY TypeForm DEF IInv, Marks, Once
  <2>. QED
    BY <2>1, <2>2 DEF IInv, Marks, Once, HandleEndsOnce
<1>. QED
  BY <1>1, InitIInv, StepIInv, PTL DEF Spec

(* The finalize hook runs after the background maintenance of the entry is   *)
(* over, or after the drain's budget ran out and that was reported: no task  *)
(* joins the list once it is drained, and none starts again.                 *)
THEOREM DrainsPrecedeFinalize == Spec => []DrainPrecedesFinalize
<1>1. IInv => DrainPrecedesFinalize
  BY DEF IInv, Drains
<1>. QED
  BY <1>1, InitIInv, StepIInv, PTL DEF Spec

=============================================================================
