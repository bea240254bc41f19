------------------------------ MODULE RdbKinds ------------------------------
(***************************************************************************)
(* The vocabulary of the proofs about RdbStore: the invariants, the kinds    *)
(* of steps by what they do to sessions, connections, step queries and       *)
(* transactions, and what a step of each kind has to respect.                *)
(***************************************************************************)
EXTENDS RdbStore

-----------------------------------------------------------------------------
(* The invariants.                                                           *)

Maps == [Threads -> [session : Sessions \cup {NoSession}, useCount : Nat]]

(* Sessions m.map of the threads and m.idle: a session has one place, and a   *)
(* thread has a session as long as it uses it.                                *)
Apart(m) ==
    /\ m \in [map : Maps, idle : Seq(Sessions)]
    /\ \A t \in Threads : m.map[t].session = NoSession <=> m.map[t].useCount = 0
    /\ \A t, u \in Threads :
          t # u /\ m.map[t].session # NoSession => m.map[t].session # m.map[u].session
    /\ \A t \in Threads : \A i \in 1..Len(m.idle) : m.map[t].session # m.idle[i]
    /\ \A i, j \in 1..Len(m.idle) : m.idle[i] = m.idle[j] => i = j

Places == {"idle", "acquire", "execute", "exchange", "run", "reopen", "close", "open", "pop",
           "crashed"}

(* Where a call is between its GetThreadSession and its ReleaseThreadSession. *)
Busy == {"acquire", "execute", "exchange", "run", "reopen"}

(* A thread in a call has a session.                                          *)
CallInv ==
    /\ Apart(Present)
    /\ pc \in [Threads -> Places]
    /\ \A t \in Threads : pc[t] \in Busy => Session(t) \in Sessions

Transactions == [id : Nat, markedSuccessful : BOOLEAN, allBeforeSuccessful : BOOLEAN,
                 keeper : Sessions \cup {NoSession}]

Ops == Statements \cup TransactionCalls \cup {"Restore", "PrepareStep", NoArg}

CallTypes ==
    /\ op \in [Threads -> Ops]
    /\ arg \in [Threads -> ResultSets \cup Nat \cup {NoArg}]
    /\ transactionStack \in Seq(Transactions)
    /\ depth \in Nat
    /\ owner \in Threads \cup {NoThread}

StoreTypes ==
    /\ connectionUseCount \in [Sessions -> Nat]
    /\ isInStepQuery \in [Sessions -> BOOLEAN]
    /\ resultSet \in [ResultSets -> [tid : Threads \cup {NoThread}, statement : Connections,
                                     isClosed : BOOLEAN]]
    /\ CallTypes

(* While PrepareStep runs, its result set has no statement and its session no *)
(* query, and nobody else uses the result set.                                *)
Preparing(t) == pc[t] \in {"acquire", "execute"} /\ op[t] = "PrepareStep"

PrepareInv ==
    \A t \in Threads : Preparing(t) =>
        /\ arg[t] \in ResultSets
        /\ resultSet[arg[t]].statement = Null
        /\ ~isInStepQuery[Session(t)]
        /\ \A u \in Threads : u # t /\ Preparing(u) => arg[u] # arg[t]

(* A session counts a use exactly while it has a connection.                  *)
ConnectedInv == Running => \A s \in Sessions : connectionUseCount[s] > 0 <=> conn[s] # Null

Used(t) == pc[t] \in {"execute", "run"}

Opened(t) == {r \in ResultSets : resultSet[r].statement # Null /\ resultSet[r].tid = t}

B(P) == IF P THEN 1 ELSE 0

(* What holds until a thread makes a transaction call, or opens a second      *)
(* result set, within a step query: the query of an open result set is that   *)
(* of its session, which has a use of its own for it.                         *)
StepNotes == {"inStepQuery", "secondStepQuery"}

StepThread(t) ==
    /\ Opened(t) # {} => Session(t) # NoSession /\ isInStepQuery[Session(t)]
    /\ \A r \in Opened(t) : conn[Session(t)] = resultSet[r].statement
    /\ \A q, r \in Opened(t) : q = r
    /\ pc[t] \in Busy /\ Opened(t) # {} => threadMap[t].useCount >= 2
    /\ Running /\ Session(t) # NoSession =>
          connectionUseCount[Session(t)] >= B(Used(t)) + B(isInStepQuery[Session(t)])

StepInv ==
    /\ \A r \in ResultSets : resultSet[r].statement # Null => resultSet[r].tid \in Threads
    /\ noted \cap StepNotes = {} =>
          /\ \A t \in Threads : StepThread(t)
          /\ \A s \in Sessions : isInStepQuery[s] =>
                \E t \in Threads : Session(t) = s /\ Opened(t) # {}

(* What holds as long as the kinds of transaction calls are not mixed and     *)
(* transactions do not overlap: every use of a session and of a connection    *)
(* has a reason.                                                              *)
QuietNotes == {"mixed", "overlap"}

(* A transaction call is being executed; one that begins a transaction with    *)
(* an observer; one that ends a transaction without.                           *)
Transacting(t) == pc[t] = "pop" \/ (pc[t] \in Busy /\ op[t] \in TransactionCalls)

Starting(t) ==
    pc[t] \in Busy /\ op[t] \in {"BeginTransactionWithObserver", "GiveConnectionTemporarily"}

Closing(t) == pc[t] = "pop" \/ (pc[t] \in Busy /\ op[t] \in {"Commit", "RollBack"})

ObserverUses(t) == IF owner = t /\ Keepers # {} THEN Len(transactionStack) ELSE 0

QuietThread(t) ==
    /\ threadMap[t].useCount >= B(pc[t] \in Busy) + Cardinality(Opened(t)) + ObserverUses(t)
    /\ Session(t) # NoSession /\ isInStepQuery[Session(t)] => Opened(t) # {}
    /\ Running /\ Session(t) # NoSession =>
          connectionUseCount[Session(t)] = B(Used(t)) + B(isInStepQuery[Session(t)])
                                            + B(Session(t) \in Keepers)
    /\ Transacting(t) => owner = t
    /\ Starting(t) => transactionStack = <<>>
    /\ Closing(t) => Keepers = {}

QuietInv ==
    noted \cap QuietNotes = {} =>
        /\ \A t \in Threads : QuietThread(t)
        /\ \A s \in Sessions : (\A t \in Threads : Session(t) # s)
              => conn[s] = Null /\ ~isInStepQuery[s]
        /\ Keepers # {} =>
              owner \in Threads /\ Session(owner) \in Keepers /\ depth >= Len(transactionStack)

(* ... and, when each thread closes the one result set it opens, the only     *)
(* query of a session is that of the only open result set.                    *)
ReasonNotes == QuietNotes \cup {"secondStepQuery", "otherThread"}

ReasonInv ==
    noted \cap ReasonNotes = {} =>
        \A r \in ResultSets : resultSet[r].statement # Null =>
            /\ ~resultSet[r].isClosed
            /\ isInStepQuery[Session(resultSet[r].tid)]
            /\ \A q \in ResultSets : resultSet[q].statement # Null
                                     /\ resultSet[q].tid = resultSet[r].tid => q = r

-----------------------------------------------------------------------------
(* The kinds of steps, by what they do to sessions, connections and queries.  *)

(* What a step of t does to its place and its notes.                          *)
Moves(t, place) ==
    /\ pc' = [pc EXCEPT ![t] = place]
    /\ \A u \in Threads : u # t => op'[u] = op[u] /\ arg'[u] = arg[u]
    /\ place = "idle" => op'[t] = NoArg /\ arg'[t] = NoArg

(* What the steps are about: the session of t or the one that it will get.     *)
Own(t) == GetThreadSession(t).map[t].session

(* n and d more, but not less than 0.                                          *)
Plus(n, d) == IF n + d < 0 THEN 0 ELSE n + d

(* The session of t has d more uses, and goes with the last.                   *)
Turns(t, d) ==
    /\ threadMap'[t].useCount = Plus(threadMap[t].useCount, d)
    /\ Session(t)' = IF threadMap'[t].useCount = 0 THEN NoSession ELSE Own(t)
    /\ \A u \in Threads : u # t => threadMap'[u] = threadMap[u]

(* The connection of t's session has d more uses, and goes with the last.      *)
Linked(t, d) ==
    /\ connectionUseCount' \in [Sessions -> Nat]
    /\ \A x \in Sessions : x # Own(t) =>
          conn'[x] = conn[x] /\ connectionUseCount'[x] = connectionUseCount[x]
    /\ Own(t) \in Sessions =>
          /\ connectionUseCount'[Own(t)] = Plus(connectionUseCount[Own(t)], d)
          /\ d = 0 \/ (d = 1 /\ conn[Own(t)] # Null) \/ connectionUseCount[Own(t)] > 1
                => conn'[Own(t)] = conn[Own(t)]
          /\ Running' => (connectionUseCount'[Own(t)] > 0 <=> conn'[Own(t)] # Null)

Same == UNCHANGED <<isInStepQuery, resultSet>>

(* A call gets its session; PrepareStep also has found its result set.         *)
Begins(t) ==
    /\ pc[t] = "idle" /\ SessionLeft(t) /\ Turns(t, 1) /\ Linked(t, 0) /\ Same
    /\ \E place \in {"idle", "acquire", "pop", "crashed"} : Moves(t, place)
    /\ op'[t] = "PrepareStep" => /\ arg'[t] \in ResultSets /\ NotInUse(arg'[t])
                                 /\ resultSet[arg'[t]].statement = Null
                                 /\ ~isInStepQuery[Own(t)]

(* A step that leaves sessions and connections as they are.                    *)
Passes(t) ==
    /\ pc[t] \in {"idle", "close", "open", "pop"} /\ Turns(t, 0) /\ Linked(t, 0) /\ Same
    /\ \E place \in {"idle", "close", "open"} : Moves(t, place)

(* The session takes a connection, or counts one more use of the one it has.   *)
Acquires(t) ==
    /\ pc[t] \in {"acquire", "exchange"} /\ Turns(t, 0) /\ Linked(t, 1) /\ Same
    /\ op'[t] = op[t] /\ arg'[t] = arg[t]
    /\ \E place \in {IF pc[t] = "acquire" THEN "execute" ELSE "run", "crashed"} : Moves(t, place)

(* The session counts one use less, and the call may end.                      *)
Ends(t) ==
    /\ pc[t] \in {"execute", "run"} /\ Linked(t, -1) /\ Same
    /\ \/ Turns(t, -1) /\ Moves(t, "idle")
       \/ /\ Turns(t, 0)
          /\ \E place \in {"idle", "exchange", "reopen", "pop"} :
                Moves(t, place) /\ (place # "idle" => op'[t] = op[t])

Reopens(t) ==
    pc[t] = "reopen" /\ Turns(t, -1) /\ Linked(t, 0) /\ Same /\ Moves(t, "idle")

(* A transaction with an observer keeps session and connection.                *)
Keeps(t) ==
    pc[t] = "execute" /\ Turns(t, 0) /\ Linked(t, 0) /\ Same /\ Moves(t, "idle")

(* So does a step result set.                                                  *)
Prepares(t) ==
    /\ pc[t] = "execute" /\ op[t] = "PrepareStep" /\ Turns(t, 0) /\ Linked(t, 0)
    /\ isInStepQuery' = [isInStepQuery EXCEPT ![Session(t)] = TRUE]
    /\ resultSet' = [resultSet EXCEPT ![arg[t]] =
                        [tid |-> t, statement |-> conn[Session(t)], isClosed |-> FALSE]]
    /\ Moves(t, "idle")

(* EndTransaction, and the first half of GiveConnectionTemporarily.            *)
Leaves(t) ==
    /\ pc[t] = "idle" /\ SessionLeft(t) /\ Same
    /\ Linked(t, -1) \/ Linked(t, 0)
    /\ \/ Turns(t, -1) /\ (\E place \in {"idle", "crashed"} : Moves(t, place))
       \/ Turns(t, 1) /\ Moves(t, "acquire") /\ op'[t] = "GiveConnectionTemporarily"
    /\ isInStepQuery[Own(t)] => "inStepQuery" \in noted'

(* FinishStep ends the query of the session.                                   *)
Finishes(t) ==
    /\ pc[t] = "idle" /\ SessionLeft(t) /\ Turns(t, -1)
    /\ IF isInStepQuery[Own(t)] THEN Linked(t, -1) ELSE Linked(t, 0)
    /\ isInStepQuery' = [isInStepQuery EXCEPT ![Own(t)] = FALSE]
    /\ \E r \in Opened(t), b \in BOOLEAN :
          resultSet' = [resultSet EXCEPT ![r].statement = Null, ![r].isClosed = b]
    /\ Moves(t, "idle")

(* So does the refusal of a second query.                                      *)
Refuses(t) ==
    /\ pc[t] = "idle" /\ Session(t) # NoSession /\ Turns(t, 0) /\ Linked(t, -1)
    /\ isInStepQuery[Own(t)]
    /\ isInStepQuery' = [isInStepQuery EXCEPT ![Own(t)] = FALSE]
    /\ UNCHANGED resultSet
    /\ Moves(t, "idle")
    /\ "secondStepQuery" \in noted'

Closes(t) ==
    /\ pc[t] = "idle" /\ Turns(t, 0) /\ Linked(t, 0) /\ UNCHANGED isInStepQuery
    /\ \E r \in ResultSets : resultSet' = [resultSet EXCEPT ![r].isClosed = TRUE]
    /\ Moves(t, "idle")
    /\ "otherThread" \in noted'

(* In every step of t the calls of the others stay where they are.             *)
Kind(t) ==
    \/ Begins(t) \/ Passes(t) \/ Acquires(t) \/ Ends(t) \/ Reopens(t) \/ Keeps(t) \/ Prepares(t)
    \/ Leaves(t) \/ Finishes(t) \/ Refuses(t) \/ Closes(t)

Steps(t) == Running /\ noted \subseteq noted' /\ CallTypes'

(* What holds of the sessions of threads and those they will get.              *)
Owned ==
    \A t \in Threads :
        /\ Session(t) # NoSession => Own(t) = Session(t)
        /\ Session(t) # NoSession <=> threadMap[t].useCount > 0
        /\ Session(t) # NoSession => Session(t) \in Sessions
        /\ SessionLeft(t) => /\ Own(t) \in Sessions
                             /\ \A u \in Threads : u # t => Session(u) # Own(t)
        /\ Session(t) # NoSession => SessionLeft(t)
        /\ pc[t] \in Busy => Session(t) # NoSession
        /\ threadMap[t].useCount \in Nat

(* Sets of result sets can be counted.                                         *)
Counting ==
    \A S \in SUBSET ResultSets :
        /\ Cardinality(S) \in Nat
        /\ Cardinality(S) = 0 <=> S = {}
        /\ \A r \in ResultSets \ S : Cardinality(S \cup {r}) = Cardinality(S) + 1
        /\ \A r \in S : Cardinality(S \ {r}) = Cardinality(S) - 1

Store ==
    PoolTypeOK /\ CallInv /\ StoreTypes /\ ConnectedInv /\ PrepareInv /\ Owned /\ Counting

-----------------------------------------------------------------------------
(* The kinds of steps, by what they do to the transactions.                  *)

(* The thread of the step is the only one with transactions, or it is noted.  *)
Alone(t) == owner \in {NoThread, t} \/ Transacting(t) \/ "overlap" \in noted'

(* The owner after the step: t, unless it returns with no transaction open.    *)
Turned(t) == owner' = t \/ (owner' = NoThread /\ depth' = 0 /\ ~Transacting(t)')

StackKept == Keepers' = Keepers /\ Len(transactionStack') = Len(transactionStack)

Ordinary(t) ==
    \/ Begins(t) \/ Passes(t) \/ Acquires(t) \/ Ends(t) \/ Reopens(t) \/ Prepares(t)
    \/ Finishes(t) \/ Refuses(t) \/ Closes(t)

(* A step that has nothing to do with transactions, or waits in such a call.   *)
Plain(t) ==
    /\ Ordinary(t) /\ StackKept /\ depth' = depth /\ owner' = owner
    /\ Transacting(t)' => pc'[t] # "pop" /\ pc[t] \in Busy /\ op'[t] = op[t]

(* A transaction call begins, or is refused at once.                           *)
Called(t) ==
    /\ Begins(t) \/ Passes(t)
    /\ Alone(t) /\ StackKept /\ depth' = depth /\ Turned(t)
    /\ Starting(t)' => transactionStack' = <<>>
    /\ Closing(t)' => Keepers = {} \/ "mixed" \in noted'

(* It fails, or ends a transaction without an observer.                        *)
Finished(t) ==
    /\ Ends(t) \/ Passes(t)
    /\ Transacting(t) /\ Turned(t) /\ pc'[t] \in {"idle", "pop"}
    /\ \/ StackKept /\ depth' = depth /\ pc'[t] = "idle"
       \/ Closing(t) /\ Keepers' \subseteq Keepers

(* A transaction goes onto the stack without keeping the connection.           *)
Grown(t) ==
    /\ Begins(t) \/ (Ends(t) /\ Turns(t, 0))
    /\ Alone(t) /\ pc'[t] = "idle" /\ owner' = t /\ depth' = depth + 1
    /\ Keepers' = Keepers /\ Len(transactionStack') = Len(transactionStack) + 1

(* A transaction with an observer keeps it.                                    *)
Kept(t) ==
    /\ Keeps(t) /\ Starting(t) /\ pc'[t] = "idle" /\ owner' = t /\ depth' = depth + 1
    /\ Len(transactionStack') = Len(transactionStack) + 1
    /\ transactionStack = <<>> => Keepers' = {Session(t)}

(* The outermost of them gives it back; an inner one leaves the stack.         *)
Left(t) ==
    /\ Leaves(t) /\ Alone(t)
    /\ \/ "mixed" \in noted'
       \/ Keepers # {} /\ conn[Own(t)] = Null
       \/ /\ Keepers # {} /\ Turned(t) /\ pc'[t] \in {"idle", "acquire"}
          /\ \/ Linked(t, -1) /\ Len(transactionStack) = 1 /\ transactionStack' = <<>>
             \/ /\ Linked(t, 0) /\ pc'[t] = "idle" /\ Keepers' = Keepers
                /\ Len(transactionStack) > 1 /\ Len(transactionStack') = Len(transactionStack) - 1
                /\ depth' >= depth - 1

Effect(t) == Plain(t) \/ Called(t) \/ Finished(t) \/ Grown(t) \/ Kept(t) \/ Left(t)

-----------------------------------------------------------------------------
(* What a step of t does to its place, its session and the pool.             *)

SessionStep(t) ==
    \/ SetSessions(Present)
    \/ SetSessions(ReleaseThreadSession(Present, t, 1))
    \/ /\ SessionLeft(t)
       /\ \/ SetSessions(GetThreadSession(t))
          \/ SetSessions(ReleaseThreadSession(GetThreadSession(t), t, 1))
          \/ SetSessions(ReleaseThreadSession(GetThreadSession(t), t, 2))

PlaceStep(t) ==
    \E place \in Places :
        /\ pc' = [pc EXCEPT ![t] = place]
        /\ place \in Busy => \/ SessionLeft(t) /\ SetSessions(GetThreadSession(t))
                             \/ pc[t] \in Busy /\ SetSessions(Present)

Frame(t) == SessionStep(t) /\ PlaceStep(t) /\ (PoolNext \/ UNCHANGED poolVars)

-----------------------------------------------------------------------------
(* What a step of t leaves alone.                                             *)
Untouched(t) ==
    /\ \A u \in Threads : u # t => /\ threadMap'[u] = threadMap[u] /\ Session(u)' = Session(u)
                                   /\ pc'[u] = pc[u] /\ op'[u] = op[u] /\ arg'[u] = arg[u]
                                   /\ Session(u) # NoSession => Session(u) \in Sessions
    /\ \A x \in Sessions : x # Own(t) \/ (\E u \in Threads : u # t /\ Session(u) = x) =>
          /\ conn'[x] = conn[x] /\ connectionUseCount'[x] = connectionUseCount[x]
          /\ isInStepQuery'[x] = isInStepQuery[x]
    /\ connectionUseCount' \in [Sessions -> Nat]
    /\ isInStepQuery' \in [Sessions -> BOOLEAN]
    /\ resultSet' \in [ResultSets -> [tid : Threads \cup {NoThread}, statement : Connections,
                                      isClosed : BOOLEAN]]
    /\ \A r \in ResultSets : \/ /\ resultSet'[r].statement = resultSet[r].statement
                                /\ resultSet'[r].tid = resultSet[r].tid
                             \/ Prepares(t) /\ r = arg[t]
                             \/ Finishes(t) /\ r \in Opened(t) /\ resultSet'[r].statement = Null

(* What StepInv says of t, before a step, about the session that it has or     *)
(* gets ...                                                                    *)
Before(t) ==
    /\ Opened(t) # {} => Session(t) = Own(t) /\ threadMap[t].useCount >= 1
    /\ Opened(t) # {} <=> isInStepQuery[Own(t)]
    /\ \A r \in Opened(t) : conn[Own(t)] = resultSet[r].statement /\ conn[Own(t)] # Null
    /\ \A q, r \in Opened(t) : q = r
    /\ pc[t] \in Busy /\ Opened(t) # {} => threadMap[t].useCount >= 2
    /\ Used(t) => connectionUseCount[Own(t)] >= 1
    /\ isInStepQuery[Own(t)] => connectionUseCount[Own(t)] >= 1
    /\ Used(t) /\ isInStepQuery[Own(t)] => connectionUseCount[Own(t)] >= 2

(* ... and after it.                                                           *)
After(t) ==
    /\ Opened(t)' # {} => Session(t)' = Own(t)
    /\ Opened(t)' # {} <=> isInStepQuery'[Own(t)]
    /\ \A r \in Opened(t)' : conn'[Own(t)] = resultSet'[r].statement
    /\ \A q, r \in Opened(t)' : q = r
    /\ pc'[t] \in Busy /\ Opened(t)' # {} => threadMap'[t].useCount >= 2
    /\ Used(t)' => connectionUseCount'[Own(t)] >= 1
    /\ isInStepQuery'[Own(t)] => connectionUseCount'[Own(t)] >= 1
    /\ Used(t)' /\ isInStepQuery'[Own(t)] => connectionUseCount'[Own(t)] >= 2

-----------------------------------------------------------------------------
(* The uses of sessions and connections.                                     *)

(* The uses that t has of its session besides those of its call and its open   *)
(* result sets, and those of the connection of session s besides those of the   *)
(* call and the query.                                                         *)
Spare(t) == threadMap[t].useCount - B(pc[t] \in Busy) - Cardinality(Opened(t))

Free(t, s) == connectionUseCount[s] - B(Used(t)) - B(isInStepQuery[s])

(* What a step of t has to respect of the transactions for QuietInv to hold    *)
(* again, s being Own(t).                                                      *)
Settled(t, s) ==
    /\ \A u \in Threads : u # t =>
          /\ ObserverUses(u)' <= ObserverUses(u)
          /\ Session(u) \in Sessions => (Session(u) \in Keepers' <=> Session(u) \in Keepers)
          /\ Transacting(u) => /\ owner' = owner /\ Keepers' = Keepers
                               /\ transactionStack = <<>> => transactionStack' = <<>>
    /\ Keepers' # {} =>
          owner' \in Threads /\ Session(owner)' \in Keepers' /\ depth' >= Len(transactionStack')
    /\ Transacting(t)' => owner' = t
    /\ Starting(t)' => transactionStack' = <<>>
    /\ Closing(t)' => Keepers' = {}
    /\ Spare(t)' >= ObserverUses(t)'
    /\ SessionLeft(t) /\ Running' => Free(t, s)' = B(s \in Keepers')
    /\ pc'[t] = "crashed" => Session(t)' # NoSession

-----------------------------------------------------------------------------
(* What becomes of transactions.                                             *)

(* Until a transaction call is made within a step query: a read connection is  *)
(* with a session only for a statement that runs or for its step query, whose   *)
(* thread has a use of the session for it; a transaction call that has its      *)
(* connection has the write connection.                                         *)
Reads(s) == conn[s] # Null /\ ~conn[s].isWriteConnection

Transacts(t) == pc[t] \in {"acquire", "execute"} /\ op[t] \in TransactionCalls

ReadThread(t) ==
    /\ isInStepQuery[Session(t)] => threadMap[t].useCount >= B(pc[t] \in Busy) + 1
    /\ Running => LET reasons == B(Used(t)) + B(isInStepQuery[Session(t)])
                  IN  /\ connectionUseCount[Session(t)] >= reasons
                      /\ Reads(Session(t)) => connectionUseCount[Session(t)] = reasons
    /\ Transacts(t) => /\ ~isInStepQuery[Session(t)]
                       /\ pc[t] = "execute" /\ ~damaged => conn[Session(t)].isWriteConnection

ReadInv ==
    "inStepQuery" \notin noted =>
        /\ \A t \in Threads : Session(t) # NoSession => ReadThread(t)
        /\ \A s \in Sessions : (\A t \in Threads : Session(t) # s)
              => ~isInStepQuery[s] /\ (Running => ~Reads(s))

(* As long as, besides, nobody rolls back and transactions do not overlap: at   *)
(* least as many transactions are counted as open as there are on the stack,    *)
(* and one if the write connection is in one; Commit pops what it has seen.     *)
CommitNotes == {"rollBack", "overlap", "inStepQuery"}

WriterOpen == InOrder /\ writeConnection \in inTransaction

CommitThread(t) ==
    /\ Transacting(t) => owner = t /\ op[t] # "RollBack"
    /\ pc[t] \in Busy /\ op[t] = "Commit" => Len(transactionStack) = 1
    /\ pc[t] = "pop" => /\ Len(transactionStack) >= 1
                        /\ Len(transactionStack) = 1 => ~WriterOpen

CommitInv ==
    noted \cap CommitNotes = {} =>
        /\ \A t \in Threads : CommitThread(t)
        /\ \A i \in 1..Len(transactionStack) : transactionStack[i].id = i - 1
        /\ depth >= Len(transactionStack)
        /\ WriterOpen => depth >= 1

(* What these need of the pool: its connections are numbered as opened, and the *)
(* write connection is the only one for writing.                                *)
WriterHeld ==
    ~damaged =>
        /\ \A s \in Sessions :
              /\ conn[s].id \in 0..opened
              /\ conn[s].isWriteConnection => conn[s] = writeConnection
        /\ ~writeConnectionUsed => writeConnection.isWriteConnection

(* The connections in a transaction have been opened.                           *)
OpenedInv == ~damaged => \A c \in inTransaction : c.id \in 0..opened

(* What a step has to respect for ReadInv: a transaction keeps only the write   *)
(* connection, and a transaction call waits for it.                             *)
ReadKind(t) == Ordinary(t) \/ Leaves(t) \/ (Keeps(t) /\ conn[Own(t)].isWriteConnection)

Granted(t) ==
    Transacts(t)' =>
        \/ /\ pc[t] = "idle" /\ pc'[t] = "acquire" /\ Same
           /\ isInStepQuery[Own(t)] => "inStepQuery" \in noted'
        \/ /\ Acquires(t) /\ Transacts(t) /\ pc[t] = "acquire"
           /\ conn[Own(t)] = Null /\ ~damaged => conn'[Own(t)].isWriteConnection

(* The stack keeps the first n of its transactions.                             *)
Shrinks(n) ==
    /\ n \in 0..Len(transactionStack) /\ Len(transactionStack') = n
    /\ \A i \in 1..n : transactionStack'[i].id = transactionStack[i].id

StackStays == Shrinks(Len(transactionStack)) /\ depth' = depth

(* What a step does to the stack and to the transactions of SQLite.  It has     *)
(* nothing to do with them ...                                                  *)
Unrelated(t) == Plain(t) /\ StackStays /\ UNCHANGED inTransaction

(* ... or it begins or abandons a transaction call,                             *)
Requested(t) ==
    /\ StackStays /\ UNCHANGED inTransaction
    /\ Transacting(t)' =>
          /\ op'[t] = "RollBack" => "rollBack" \in noted'
          /\ pc'[t] \in Busy /\ op'[t] = "Commit" => transactionStack # <<>> /\ Top.id = 0
          /\ pc'[t] = "pop" => transactionStack # <<>> /\ Top.id # 0

(* has committed,                                                               *)
Committed(t) ==
    /\ pc[t] = "execute" /\ op[t] = "Commit" /\ pc'[t] = "pop" /\ op'[t] = "Commit"
    /\ StackStays /\ inTransaction' = inTransaction \ {conn[Own(t)]}

(* pops the transaction,                                                        *)
PoppedAfter(t) ==
    /\ pc[t] = "pop" /\ ~Transacting(t)' /\ UNCHANGED inTransaction
    /\ depth' = Plus(depth, -1)
    /\ transactionStack # <<>> => Shrinks(Len(transactionStack) - 1)

(* has begun one,                                                               *)
Pushed(t) ==
    /\ ~Transacting(t)' /\ depth' = depth + 1
    /\ Len(transactionStack') = Len(transactionStack) + 1
    /\ \A i \in 1..Len(transactionStack) : transactionStack'[i].id = transactionStack[i].id
    /\ transactionStack'[Len(transactionStack) + 1].id = Len(transactionStack)

(* or ends one with an observer: the outermost, an inner one, or none.          *)
Ended(t) ==
    /\ pc[t] = "idle" /\ pc'[t] # "pop" /\ (Transacting(t)' => op'[t] = "GiveConnectionTemporarily")
    /\ isInStepQuery[Own(t)] => "inStepQuery" \in noted'
    /\ \/ /\ Shrinks(0) /\ conn[Own(t)] # Null /\ SessionLeft(t) /\ depth' = Plus(depth, -1)
          /\ inTransaction' = inTransaction \ {conn[Own(t)]}
       \/ /\ Len(transactionStack) > 1 /\ Shrinks(Len(transactionStack) - 1)
          /\ depth' = Plus(depth, -1) /\ UNCHANGED inTransaction
       \/ /\ \E n \in 0..Len(transactionStack) : Shrinks(n)
          /\ depth' = depth /\ UNCHANGED inTransaction

Outcome(t) ==
    \/ Unrelated(t)
    \/ /\ Alone(t) /\ Turned(t)
       /\ Requested(t) \/ Committed(t) \/ PoppedAfter(t) \/ Pushed(t) \/ Ended(t)
    \/ Transacting(t) /\ op[t] = "RollBack"

=============================================================================
