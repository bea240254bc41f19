------------------------- MODULE DataShareObservers -------------------------
(***************************************************************************)
(* on('dataChange') and off('dataChange') of the JavaScript DataShareHelper *)
(* and the observer objects behind them: the DSHelperOnOffCB each on()     *)
(* allocates, the process's list registerInstances_, the registrations the *)
(* data observer manager keeps (external), and the notifications that      *)
(* arrive on binder threads and are handed to the JavaScript thread.       *)
(*                                                                         *)
(* JavaScript steps are atomic; the execute halves of on() and off() run   *)
(* on worker threads in any order; OnChange runs on binder threads.  One   *)
(* helper object is enough: the list is searched by uri and callback only. *)
(* An off() with wrong arguments finds nothing and is left out.            *)
(***************************************************************************)
EXTENDS Integers, FiniteSets

CONSTANTS Ons, Offs,     \* names of on() and off() calls
          Uris, Callbacks,
          MaxChanges     \* bound: notifications sent

VARIABLES
    on,           \* [Ons -> an on() call and its DSHelperOnOffCB]
    observer,     \* [Ons -> its NAPIDataShareObserver]
    off,          \* [Offs -> an off() call with its NotifyList or DestoryList]
    instances,    \* registerInstances_
    registry,     \* the observers the data observer manager knows
    sent,         \* [Ons -> notifications on their way to OnChange]
    arriving,     \* [Ons -> OnChange calls that have set workPre_]
    works,        \* [Ons -> works queued for OnChangeJSThreadWorker]
    helperGone,   \* the helper object has been collected
    changes,      \* notifications sent so far
    lapses,       \* history: uses of something freed
    mishaps       \* history: circumstances the properties name

observerVars == <<on, observer, off, instances, registry, sent, arriving, works, helperGone,
                  changes, lapses, mishaps>>

NoUriGiven == ""
NoCallback == "none"

ObserversInit ==
    /\ on = [r \in Ons |-> [at |-> "none", valid |-> FALSE, uri |-> NoUriGiven, callback |-> NoCallback,
                            freed |-> FALSE]]
    /\ observer = [r \in Ons |-> [pre |-> 0, int |-> 0, associated |-> FALSE, ref |-> "none"]]
    /\ off = [o \in Offs |-> [at |-> "none", list |-> {}]]
    /\ instances = {} /\ registry = {}
    /\ sent = [r \in Ons |-> 0] /\ arriving = [r \in Ons |-> 0] /\ works = [r \in Ons |-> 0]
    /\ helperGone = FALSE /\ changes = 0
    /\ lapses = {} /\ mishaps = {}

\* The references an observer is kept alive by.
Kept(r, pending) ==
    \/ ~on[r].freed
    \/ r \in registry
    \/ sent[r] + arriving[r] + pending > 0

Lapse(S) == lapses' = lapses \cup S

If(cond, tag) == IF cond THEN {tag} ELSE {}

\* A second delete of the same reference.
Released(r) == If(observer[r].ref = "deleted", "doubleRelease")

-----------------------------------------------------------------------------
(* on().                                                                   *)

\* The arguments are checked; a valid call is listed before it is executed.
NAPI_Register(r) ==
    /\ ~helperGone /\ on[r].at = "none"
    /\ \E u \in Uris \cup {NoUriGiven}, f \in Callbacks \cup {NoCallback} :
          /\ on' = [on EXCEPT ![r] = [at |-> "queued", valid |-> f # NoCallback, uri |-> u, callback |-> f,
                                      freed |-> FALSE]]
          /\ observer' = [observer EXCEPT ![r].ref = IF f # NoCallback THEN "live" ELSE "none"]
          /\ instances' = IF f # NoCallback THEN instances \cup {r} ELSE instances
    /\ UNCHANGED <<off, registry, sent, arriving, works, helperGone, changes, lapses, mishaps>>

\* On a worker: the provider registers the observer, or cannot be reached.
RegisterExecuteCB(r) ==
    /\ on[r].at = "queued"
    /\ on' = [on EXCEPT ![r].at = "executed"]
    /\ Lapse(If(on[r].freed, "freedCB") \cup If(helperGone, "freedHelper"))
    /\ \E reached \in BOOLEAN :
          LET asks == on[r].valid /\ on[r].uri # NoUriGiven
          IN /\ registry' = IF asks /\ reached THEN registry \cup {r} ELSE registry
             /\ mishaps' = mishaps \cup If(asks /\ ~reached, "unreached")
                                   \cup If(r \notin instances /\ on[r].valid, "offOvertakesOn")
    /\ UNCHANGED <<observer, off, instances, sent, arriving, works, helperGone, changes>>

\* Only a call that was not valid is cleaned up here.
RegisterCompleteCB(r) ==
    /\ on[r].at = "executed"
    /\ IF on[r].valid
       THEN /\ on' = [on EXCEPT ![r].at = "done"]
            /\ Lapse(If(on[r].freed, "freedCB"))
            /\ mishaps' = mishaps \cup If(r \notin instances, "offOvertakesOn")
       ELSE /\ on' = [on EXCEPT ![r].at = "done", ![r].freed = TRUE]
            /\ UNCHANGED <<lapses, mishaps>>
    /\ UNCHANGED <<observer, off, instances, registry, sent, arriving, works, helperGone, changes>>

-----------------------------------------------------------------------------
(* off().                                                                  *)

\* By callback: the uri must match too, and is empty when only a callback was
\* passed.  By uri alone: every callback of that uri.
FindRegisterObs(u, f) ==
    IF f # NoCallback THEN {r \in instances : on[r].uri = u /\ on[r].callback = f}
    ELSE IF u = NoUriGiven THEN {}
    ELSE {r \in instances : on[r].uri = u}

NAPI_UnRegister(o) ==
    /\ ~helperGone /\ off[o].at = "none"
    /\ \E u \in Uris \cup {NoUriGiven}, f \in Callbacks \cup {NoCallback} :
          /\ u # NoUriGiven \/ f # NoCallback
          /\ off' = [off EXCEPT ![o] = [at |-> "queued", list |-> FindRegisterObs(u, f)]]
          /\ instances' = instances \ FindRegisterObs(u, f)
    /\ UNCHANGED <<on, observer, registry, sent, arriving, works, helperGone, changes, lapses, mishaps>>

\* Defect: the observer is not withdrawn.
UnRegisterOnlyLocally(o) ==
    /\ off[o].at = "queued"
    /\ off' = [off EXCEPT ![o].at = "executed"]
    /\ UNCHANGED <<on, observer, instances, registry, sent, arriving, works, helperGone, changes, lapses, mishaps>>

\* On a worker: every observer found is taken out of the manager's registry,
\* unless the provider cannot be reached.
UnRegisterExecuteCB(o) ==
    /\ off[o].at = "queued"
    /\ off' = [off EXCEPT ![o].at = "executed"]
    /\ Lapse(If(helperGone /\ off[o].list # {}, "freedHelper"))
    /\ \E reached \in BOOLEAN :
          /\ registry' = IF reached THEN registry \ off[o].list ELSE registry
          /\ mishaps' = mishaps \cup If(~reached, "unreached")
    /\ UNCHANGED <<on, observer, instances, sent, arriving, works, helperGone, changes>>

\* An observer whose notification is under way is left to the worker that
\* delivers it; the others are released and freed.
UnRegisterCompleteCB(o) ==
    /\ off[o].at = "executed"
    /\ LET left == {r \in off[o].list : observer[r].pre = 1}
           gone == off[o].list \ left
       IN /\ observer' = [r \in Ons |->
                            IF r \in left THEN [observer[r] EXCEPT !.associated = TRUE, !.int = 1]
                            ELSE IF r \in gone THEN [observer[r] EXCEPT !.ref = "deleted"]
                            ELSE observer[r]]
          /\ on' = [r \in Ons |-> IF r \in gone THEN [on[r] EXCEPT !.freed = TRUE] ELSE on[r]]
          /\ Lapse(UNION {Released(r) : r \in gone})
          /\ mishaps' = mishaps \cup
                If(\E r \in off[o].list : sent[r] > 0, "underWay")
    /\ off' = [off EXCEPT ![o] = [at |-> "done", list |-> {}]]
    /\ UNCHANGED <<instances, registry, sent, arriving, works, helperGone, changes>>

\* The helper object is collected: the first on() of it in the list is freed,
\* its callback reference and its registration are not.
HelperCollected ==
    /\ ~helperGone
    /\ helperGone' = TRUE
    /\ IF instances = {} THEN UNCHANGED <<instances, on>>
       ELSE \E r \in instances :
               /\ instances' = instances \ {r}
               /\ on' = [on EXCEPT ![r].freed = TRUE]
    /\ mishaps' = mishaps \cup {"collected"}
    /\ UNCHANGED <<observer, off, registry, sent, arriving, works, changes, lapses>>

-----------------------------------------------------------------------------
(* Notifications.                                                          *)

NotifyObserver(r) ==
    /\ r \in registry /\ changes < MaxChanges
    /\ sent' = [sent EXCEPT ![r] = @ + 1]
    /\ changes' = changes + 1
    /\ UNCHANGED <<on, observer, off, instances, registry, arriving, works, helperGone, lapses, mishaps>>

\* Defect: ChangeWorkPre is missing.
OnChangeUnmarked(r) ==
    /\ sent[r] > 0
    /\ sent' = [sent EXCEPT ![r] = @ - 1]
    /\ arriving' = [arriving EXCEPT ![r] = @ + 1]
    /\ mishaps' = mishaps \cup If(arriving[r] + works[r] > 0, "second")
    /\ UNCHANGED <<on, observer, off, instances, registry, works, helperGone, changes, lapses>>

\* OnChange, up to the mark that a work is coming.
OnChange(r) ==
    /\ sent[r] > 0
    /\ sent' = [sent EXCEPT ![r] = @ - 1]
    /\ arriving' = [arriving EXCEPT ![r] = @ + 1]
    /\ observer' = [observer EXCEPT ![r].pre = 1]
    /\ mishaps' = mishaps \cup If(arriving[r] + works[r] > 0, "second")
    /\ UNCHANGED <<on, off, instances, registry, works, helperGone, changes, lapses>>

\* OnChange, the rest: when the loop refuses the work the mark stays.
OnChangeQueues(r) ==
    /\ arriving[r] > 0
    /\ arriving' = [arriving EXCEPT ![r] = @ - 1]
    /\ \/ /\ works' = [works EXCEPT ![r] = @ + 1]
          /\ UNCHANGED mishaps
       \/ /\ mishaps' = mishaps \cup {"refused"}
          /\ UNCHANGED works
    /\ UNCHANGED <<on, observer, off, instances, registry, sent, helperGone, changes, lapses>>

\* The work's own reference to the observer is dropped before the observer is
\* used; the callback is called; an observer left to this worker is released.
OnChangeJSThreadWorker(r) ==
    /\ works[r] > 0
    /\ works' = [works EXCEPT ![r] = @ - 1]
    /\ IF observer[r].int = 1
       THEN /\ observer' = [observer EXCEPT ![r].ref = "deleted", ![r].associated = FALSE]
            /\ on' = [on EXCEPT ![r].freed = @ \/ observer[r].associated]
            /\ Lapse(If(~Kept(r, works[r] - 1), "freedObserver") \cup
                     If(observer[r].ref = "deleted", "deadCallback") \cup Released(r))
       ELSE /\ observer' = [observer EXCEPT ![r].pre = 0]
            /\ Lapse(If(~Kept(r, works[r] - 1), "freedObserver") \cup
                     If(observer[r].ref = "deleted", "deadCallback"))
            /\ UNCHANGED on
    /\ UNCHANGED <<off, instances, registry, sent, arriving, helperGone, changes, mishaps>>

-----------------------------------------------------------------------------
ObserverWork ==
    \/ \E r \in Ons : \/ RegisterExecuteCB(r) \/ RegisterCompleteCB(r)
                      \/ OnChange(r) \/ OnChangeQueues(r) \/ OnChangeJSThreadWorker(r)
    \/ \E o \in Offs : UnRegisterExecuteCB(o) \/ UnRegisterCompleteCB(o)

ObserversNext ==
    \/ ObserverWork
    \/ \E r \in Ons : NAPI_Register(r) \/ NotifyObserver(r)
    \/ \E o \in Offs : NAPI_UnRegister(o)
    \/ HelperCollected

ObserversSpec == ObserversInit /\ [][ObserversNext]_observerVars

-----------------------------------------------------------------------------
Idle ==
    /\ \A r \in Ons : on[r].at \in {"none", "done"} /\ sent[r] + arriving[r] + works[r] = 0
    /\ \A o \in Offs : off[o].at \in {"none", "done"}

Befell(tags) == mishaps \cap tags # {}

\* The threads of on(), off() and the notifications never use what another of
\* them has freed.  It takes an off() that overtakes its on(), a notification
\* that is sent but has not arrived when off() completes, a second one that
\* arrives before the first is delivered (the worker of the first clears the
\* mark of both), a registration that could not be withdrawn, or the helper's
\* collection for one to do so.
NoStaleObserver ==
    lapses # {} => Befell({"offOvertakesOn", "underWay", "second", "unreached", "collected"})

\* When nothing is under way the observer manager knows the observers that are
\* listed and no others, unless a provider was not reached, an off() overtook its
\* on() (the observer is registered afterwards, for good) or the helper was
\* collected; and every on() that is not listed any more has been freed, unless
\* the loop refused a work: the mark it leaves makes off() wait for a worker
\* that never comes.
RegistryAgrees ==
    Idle => /\ \/ registry = {r \in instances : on[r].uri # NoUriGiven}
               \/ Befell({"offOvertakesOn", "unreached", "collected"})
            /\ \/ \A r \in Ons : on[r].at = "done" /\ r \notin instances => on[r].freed
               \/ Befell({"refused"})
=============================================================================
