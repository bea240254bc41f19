------------------------- MODULE DataShareProvider -------------------------
(***************************************************************************)
(* The provider's half of a DataShare call: the stub that receives the     *)
(* request on a binder thread, the hand-over to the extension's JavaScript *)
(* thread (DataShareUvQueue::SyncCall, which waits at most WAIT_TIME), the *)
(* extension ability, and the answer that goes back.                       *)
(*                                                                         *)
(* A request has the name of the consumer's call it serves.  What an       *)
(* answer is made of is abstracted to what a caller can tell apart:        *)
(* "value" stands for what the extension's own method returned, the others *)
(* for the values the layers put in its place.                             *)
(***************************************************************************)
EXTENDS Integers, FiniteSets, TLC

CONSTANTS Calls,        \* names of calls, and of the requests they make
          Providers,    \* the processes that hold an extension ability
          MaxDeaths     \* bound: how often a provider dies

VARIABLES
    request,    \* [Calls -> the request a call made, its SyncCall, its entry;
                \*  late and why are history: what became of it]
    js,         \* [Providers -> what the JavaScript thread is doing]
    alive,      \* [Providers -> BOOLEAN]
    deaths,     \* how many providers have died
    ran,        \* history: {<<call, provider>>} whose method ran
    faults      \* history: what touched memory that is gone, or hung

providerVars == <<request, js, alive, deaths, ran, faults>>

Free == "free"          \* js: waiting for work
Stuck == "stuck"        \* js: waits for a mutex it holds itself
Error == "error"        \* a reply without an answer

Writes == {"insert", "update", "delete", "batchInsert"}
Uris == {"normalizeUri", "denormalizeUri"}
Methods == Writes \cup Uris \cup {"query", "openFile", "openRawFile", "getType", "getFileTypes", "notifyChange"}

Answers == {"value", "minusOne", "zero", "empty", "noSet", "bareSet", "true", "false", Error}

NoRequest == [at |-> "none", method |-> "getType", to |-> "none", arg |-> "given",
              entry |-> "none", purge |-> FALSE, answer |-> "empty", late |-> FALSE, why |-> ""]

Ask(c, m, p, arg) ==
    [NoRequest EXCEPT !.at = "arrived", !.method = m, !.to = p, !.arg = arg]

-----------------------------------------------------------------------------
(* What each layer answers.                                                *)

\* The base class, whose answer stands when the extension has no such method.
BaseAnswer(m) ==
    CASE m \in Writes \cup {"openFile", "openRawFile"} -> "zero"
      [] m = "query" -> "noSet"
      [] m \in Uris \cup {"getType", "getFileTypes"} -> "empty"
      [] m = "notifyChange" -> "true"

\* The answer of a file method: the base class's when the extension has none; a
\* descriptor below zero when it has and could not open the file.
ExtFiles(m, outcome) ==
    CASE outcome = "returned" -> "value"
      [] outcome = "negative" -> "minusOne"
      [] outcome = "missing" -> BaseAnswer(m)

\* Insert, Update, Delete: -1 unless the caller may write.
ExtWrites(m, outcome) ==
    CASE outcome = "denied" -> "minusOne"
      [] outcome = "missing" -> BaseAnswer(m)
      [] outcome = "returned" -> "value"

\* Query: no result set unless the caller may read and one is returned.
ExtQuery(outcome) ==
    IF outcome = "returned" THEN "value" ELSE BaseAnswer("query")

ExtGetType(outcome) ==
    IF outcome = "returned" THEN "value" ELSE BaseAnswer("getType")

ExtBatchInsert(outcome) == ExtWrites("batchInsert", outcome)

\* Not the extension's own method but the data observer manager answers.
ExtNotifyChange(outcome) ==
    IF outcome = "returned" THEN "true" ELSE "false"

ExtUris(m, outcome) ==
    IF outcome = "returned" THEN "value" ELSE BaseAnswer(m)

\* CallObjectMethod and the checks before it: what can become of the call.
Outcomes(m) ==
    {"returned", "missing"} \cup
    (IF m \in Writes \cup {"query"} THEN {"denied"} ELSE {}) \cup
    (IF m = "openFile" THEN {"negative"} ELSE {})

ExtAnswer(m, outcome) ==
    CASE m \in {"openFile", "openRawFile", "getFileTypes"} -> ExtFiles(m, outcome)
      [] m \in {"insert", "update", "delete"} -> ExtWrites(m, outcome)
      [] m = "query" -> ExtQuery(outcome)
      [] m = "getType" -> ExtGetType(outcome)
      [] m = "batchInsert" -> ExtBatchInsert(outcome)
      [] m = "notifyChange" -> ExtNotifyChange(outcome)
      [] m \in Uris -> ExtUris(m, outcome)

\* DataShareStubImpl: the local `ret` a method returns when nothing has
\* assigned it.
ImplFiles(m) == IF m = "getFileTypes" THEN "empty" ELSE "minusOne"

ImplWritesAndQuery(m) == IF m = "query" THEN "noSet" ELSE "zero"

ImplRest(m) ==
    CASE m = "batchInsert" -> "zero"
      [] m = "notifyChange" -> "false"
      [] m \in Uris \cup {"getType"} -> "empty"

ImplAnswer(m) ==
    CASE m \in {"openFile", "openRawFile", "getFileTypes"} -> ImplFiles(m)
      [] m \in {"insert", "update", "delete", "query"} -> ImplWritesAndQuery(m)
      [] OTHER -> ImplRest(m)

\* DataShareStub: an empty filter or mode is refused, and so is a descriptor
\* below zero; a null bridge travels as a result set without one.
CmdRefuses(m, arg) == m \in {"getFileTypes", "openFile", "openRawFile"} /\ arg = "empty"

CmdFiles(m, ret) == IF m = "openFile" /\ ret = "minusOne" THEN Error ELSE ret

CmdWrites(ret) == ret

CmdQuery(ret) == IF ret = "noSet" THEN "bareSet" ELSE ret

CmdRest(ret) == ret

CmdReply(m, ret) ==
    CASE m \in {"openFile", "openRawFile", "getFileTypes"} -> CmdFiles(m, ret)
      [] m \in {"insert", "update", "delete"} -> CmdWrites(ret)
      [] m = "query" -> CmdQuery(ret)
      [] OTHER -> CmdRest(ret)
-----------------------------------------------------------------------------
ProviderInit ==
    /\ request = [c \in Calls |-> NoRequest]
    /\ js = [p \in Providers |-> Free]
    /\ alive = [p \in Providers |-> FALSE]
    /\ deaths = 0
    /\ ran = {}
    /\ faults = {}

Set(c, f) == request' = [request EXCEPT ![c] = f @@ @]

\* A provider's process ends: its entries with it, and whoever waits for a
\* reply gets an error instead.
Die(p, reqs) ==
    /\ alive' = [alive EXCEPT ![p] = FALSE]
    /\ js' = [js EXCEPT ![p] = Free]
    /\ deaths' = deaths + 1
    /\ request' = [c \in Calls |->
                     IF reqs[c].to # p THEN reqs[c]
                     ELSE [entry |-> "none"] @@
                          (IF reqs[c].at \in {"arrived", "waiting"}
                           THEN [at |-> "replied", answer |-> Error, why |-> "died"] @@ reqs[c]
                           ELSE reqs[c])]

-----------------------------------------------------------------------------
(* The binder thread of request c.                                         *)

\* OnRemoteRequest reads the parcel and refuses it.
Refuse(c) ==
    /\ request[c].at = "arrived"
    /\ CmdRefuses(request[c].method, request[c].arg)
    /\ Set(c, [at |-> "replied", answer |-> Error])
    /\ UNCHANGED <<js, alive, deaths, ran, faults>>

\* Purge locks the mutex in the entry, frees the entry, and its lock unlocks the
\* freed mutex when it goes out of scope.  The process may be lost by that, as
\* ProviderDies says it may at any time.
Purged == faults \cup {"freedMutex"}

\* SyncCall queues the entry on the loop and waits, or cannot and returns with
\* `ret` as it was: there is no memory, or the loop refuses and the entry is purged.
SyncCall(c) ==
    /\ request[c].at = "arrived"
    /\ ~CmdRefuses(request[c].method, request[c].arg)
    /\ \/ /\ Set(c, [at |-> "waiting", entry |-> "queued", answer |-> ImplAnswer(request[c].method)])
          /\ UNCHANGED faults
       \/ /\ Set(c, [at |-> "replied", why |-> "notQueued",
                     answer |-> CmdReply(request[c].method, ImplAnswer(request[c].method))])
          /\ faults' \in {faults, Purged}
    /\ UNCHANGED <<js, alive, deaths, ran>>

\* wait_for sees `done`: the entry is purged and the stub replies.
WaitDone(c) ==
    /\ request[c].at = "waiting"
    /\ request[c].entry = "done"
    /\ Set(c, [at |-> "replied", entry |-> "purged",
               answer |-> CmdReply(request[c].method, request[c].answer)])
    /\ faults' = Purged
    /\ UNCHANGED <<js, alive, deaths, ran>>

\* Defect: the wait has no limit.
WaitForever(c) == request[c].at = "never" /\ UNCHANGED providerVars

\* wait_for gives up.  It needs the entry's mutex back, so it cannot while
\* the callback runs.  uv_cancel is given the address of the local pointer
\* instead of the request, so its answer is undefined: refused, the entry
\* is purged although the loop still has it; accepted, the entry is left to
\* the callback.  Either way the stub's frame is gone afterwards.
WaitTimeout(c) ==
    /\ request[c].at = "waiting"
    /\ request[c].entry = "queued"
    /\ \E cancelled \in BOOLEAN :
          /\ Set(c, [at |-> "replied", late |-> TRUE, purge |-> cancelled,
                     entry |-> IF cancelled THEN "queued" ELSE "freed",
                     answer |-> CmdReply(request[c].method, request[c].answer)])
          /\ faults' = IF cancelled THEN faults ELSE Purged
    /\ UNCHANGED <<js, alive, deaths, ran>>

-----------------------------------------------------------------------------
(* The JavaScript thread of provider p.                                    *)

\* The loop calls back: the entry's mutex is taken and func() entered.  A
\* method of the extension may never return.
CallbackBegins(p, c) ==
    /\ alive[p] /\ js[p] = Free
    /\ request[c].to = p
    /\ request[c].entry = "queued"
    /\ Set(c, [entry |-> "running"])
    /\ \E hangs \in BOOLEAN : js' = [js EXCEPT ![p] = IF hangs THEN "hung" ELSE "busy"]
    /\ UNCHANGED <<alive, deaths, ran, faults>>

\* Defect: `ret` is captured by value.
CallbackEndsByValue(p, c) ==
    /\ alive[p] /\ js[p] = "busy"
    /\ request[c].to = p
    /\ request[c].entry = "running"
    /\ Set(c, [entry |-> "done"])
    /\ ran' = ran \cup {<<c, p>>}
    /\ js' = [js EXCEPT ![p] = Free]
    /\ UNCHANGED <<alive, deaths, faults>>

\* func() has returned: the answer goes to the stub's `ret`, which is a
\* variable of a frame that may be gone.  Purge takes the entry's mutex,
\* which this thread already holds.
CallbackEnds(p, c) ==
    /\ alive[p] /\ js[p] = "busy"
    /\ request[c].to = p
    /\ request[c].entry = "running"
    /\ \E outcome \in Outcomes(request[c].method) :
          /\ IF request[c].late
             THEN /\ Set(c, [entry |-> "done"])
                  /\ faults' = faults \cup {"deadFrame"} \cup
                               (IF request[c].purge THEN {"stuck"} ELSE {})
             ELSE /\ Set(c, [entry |-> "done", why |-> outcome,
                             answer |-> ExtAnswer(request[c].method, outcome)])
                  /\ UNCHANGED faults
          /\ ran' = IF outcome \in {"returned", "negative"} THEN ran \cup {<<c, p>>} ELSE ran
    /\ js' = [js EXCEPT ![p] = IF request[c].purge THEN Stuck ELSE Free]
    /\ UNCHANGED <<alive, deaths>>

\* The loop calls back with an entry that has been freed: the process is
\* lost, or the memory still holds the function and it runs.
CallbackFreed(p, c) ==
    /\ alive[p] /\ js[p] = Free
    /\ request[c].to = p
    /\ request[c].entry = "freed"
    /\ faults' = faults \cup {"freedEntry"}
    /\ \/ /\ deaths < MaxDeaths
          /\ Die(p, [request EXCEPT ![c].entry = "none"])
          /\ UNCHANGED ran
       \/ /\ ran' = ran \cup {<<c, p>>}
          /\ Set(c, [entry |-> "none"])
          /\ UNCHANGED <<js, alive, deaths>>

ProviderDies(p) ==
    /\ alive[p] /\ deaths < MaxDeaths
    /\ Die(p, request)
    /\ UNCHANGED <<ran, faults>>

-----------------------------------------------------------------------------
ProviderStep(c) ==
    \/ Refuse(c)
    \/ SyncCall(c)
    \/ WaitDone(c)
    \/ WaitTimeout(c)
    \/ \E p \in Providers : CallbackBegins(p, c) \/ CallbackEnds(p, c) \/ CallbackFreed(p, c)
=============================================================================
