--------------------------- MODULE StepResultSet ---------------------------
(***************************************************************************)
(* The result set of RdbStore.QueryByStep: a cursor over a statement that  *)
(* SQLite steps.  Going back resets the statement and steps again from the *)
(* first row; the end of the rows finishes the statement, and the next     *)
(* call prepares a new one.  Only the thread that prepared the statement   *)
(* may step or finish it, but any thread may reset it.                     *)
(*                                                                         *)
(* The statement is [rows, at]: the rows of the table when it was first    *)
(* stepped, and how many of them it has delivered.  The table and the      *)
(* other connection's writes are those of SharedResultSet.                 *)
(***************************************************************************)
EXTENDS SharedResultSet

CONSTANT Threads

NoStatement == [rows |-> <<>>, at |-> -1]
Fresh == [rows |-> <<>>, at |-> 0]

\* The StepResultSet.  run and restarted are history: the rows of the last run
\* that came to its end, and that a run began after it without a Reset.
VARIABLE step

\* What goes wrong in a call: nothing, the preparation, or the step to a row.
\* "busy" after all retries keeps the statement, another error finishes it.
NoTrouble == [kind |-> "none", row |-> 0]

Faults == {NoTrouble}
          \cup (IF seen.errors < MaxErrors
                THEN [kind : {"prepare", "busy", "error"}, row : {step.rowPos + 1, step.rowPos + 2}]
                ELSE {})

FinishStep(t, thread) ==
    IF thread # t.tid \/ t.stmt = NoStatement
    THEN t
    ELSE [t EXCEPT !.stmt = NoStatement, !.rowPos = INIT_POS]

\* Defect: the end reached before is remembered.
ResetKeepsEnd(t) ==
    [t EXCEPT !.stmt = IF @ = NoStatement THEN @ ELSE Fresh,
              !.rowPos = INIT_POS, !.restarted = FALSE]

Reset(t) ==
    [t EXCEPT !.stmt = IF @ = NoStatement THEN @ ELSE Fresh,
              !.rowPos = INIT_POS, !.isAfterLast = FALSE, !.restarted = FALSE]

\* ok: the thread has a statement to step.
PrepareStep(t, thread, fault) ==
    IF t.closed \/ (t.stmt # NoStatement /\ t.tid # thread)
       \/ (t.stmt = NoStatement /\ fault.kind = "prepare")
    THEN [t EXCEPT !.ok = FALSE]
    ELSE IF t.stmt # NoStatement THEN [t EXCEPT !.ok = TRUE]
    ELSE [t EXCEPT !.ok = TRUE, !.stmt = Fresh, !.tid = thread, !.restarted = t.isAfterLast]

GoToNextRow(t, thread, fault) ==
    LET ready == PrepareStep(t, thread, fault)
        rows  == IF ready.stmt.at = 0 THEN table ELSE ready.stmt.rows
        here  == fault.row = t.rowPos + 1
    IN  IF ~ready.ok THEN ready
        ELSE IF here /\ fault.kind = "busy" THEN [ready EXCEPT !.ok = FALSE]
        ELSE IF here /\ fault.kind = "error"
        THEN [FinishStep(ready, thread) EXCEPT !.ok = FALSE]
        ELSE IF ready.stmt.at < Len(rows)
        THEN [ready EXCEPT !.stmt = [rows |-> rows, at |-> @.at + 1], !.rowPos = @ + 1]
        ELSE [FinishStep([ready EXCEPT !.isAfterLast = TRUE, !.rowCount = t.rowPos + 1], thread)
              EXCEPT !.ok = FALSE, !.run = rows]

\* GoToNextRow until the position is reached or it fails.
StepsTo(t, position, thread, fault) ==
    LET most == Larger(Len(table), Len(t.stmt.rows)) + 1
        upTo[i \in 0 .. most] ==
            IF i = 0 THEN [t EXCEPT !.ok = TRUE]
            ELSE LET was == upTo[i - 1]
                 IN  IF ~was.ok \/ was.rowPos = position THEN was
                     ELSE GoToNextRow(was, thread, fault)
    IN  upTo[most]

StepGoToRow(t, position, thread, fault) ==
    IF t.closed THEN [t EXCEPT !.ok = FALSE]                \* rdb is null
    ELSE IF position < 0 THEN [Reset(t) EXCEPT !.ok = FALSE]
    ELSE IF position < t.rowPos THEN StepsTo(Reset(t), position, thread, fault)
    ELSE StepsTo(t, position, thread, fault)

\* Behind every row there is.
Beyond(t) == Len(table) + Len(t.stmt.rows) + 1

\* Defect: the cursor is brought back to the first row.
StepRowCountToFirst(t, thread, fault) ==
    IF t.rowCount # INIT_POS THEN t
    ELSE StepGoToRow(StepsTo(t, Beyond(t), thread, fault), 0, thread, NoTrouble)

\* Counting goes to the end and then back to where the cursor was.
StepRowCount(t, thread, fault) ==
    IF t.rowCount # INIT_POS THEN t
    ELSE StepGoToRow(StepsTo(t, Beyond(t), thread, fault), t.rowPos, thread, NoTrouble)
-----------------------------------------------------------------------------
StepInit ==
    step = [stmt |-> NoStatement, rowPos |-> INIT_POS, isAfterLast |-> FALSE,
            rowCount |-> INIT_POS, closed |-> FALSE, tid |-> "none", ok |-> FALSE,
            run |-> <<>>, restarted |-> FALSE]

StepBecomes(t, fault) ==
    /\ who = "step"
    /\ step' = t
    /\ seen' = [seen EXCEPT !.errors = IF fault = NoTrouble THEN @ ELSE @ + 1]
    /\ UNCHANGED <<who, table, memory, rs, cur, alive, isInStepQuery, writes>>

DoStepColumnNames(thread, fault) == StepBecomes(PrepareStep(step, thread, fault), fault)

DoStepGoToRow(position, thread, fault) ==
    StepBecomes(StepGoToRow(step, position, thread, fault), fault)

DoStepNextRow(thread, fault) == StepBecomes(GoToNextRow(step, thread, fault), fault)

DoStepRowCount(thread, fault) == StepBecomes(StepRowCount(step, thread, fault), fault)

\* A thread that does not own the statement marks the set closed and forgets the
\* store, but the statement is not finished.
DoStepClose(thread) ==
    StepBecomes(IF step.closed THEN step ELSE [FinishStep(step, thread) EXCEPT !.closed = TRUE],
                NoTrouble)

StepNext ==
    \/ \E thread \in Threads :
          \/ \E fault \in Faults :
                \/ DoStepColumnNames(thread, fault)
                \/ \E p \in -1 .. Len(table) + 1 : DoStepGoToRow(p, thread, fault)
                \/ DoStepNextRow(thread, fault)
                \/ DoStepRowCount(thread, fault)
          \/ DoStepClose(thread)
    \/ \E rows \in Rewrites : who = "step" /\ Write(rows) /\ UNCHANGED step
-----------------------------------------------------------------------------
\* The set and SQLite agree, whichever thread stepped, reset, failed or closed
\* in between: while rowPos names a row the statement is there and delivered
\* that row last, so that a getter reads row rowPos; rowCount is the number of
\* rows of the last run that came to its end; and IsEnded is TRUE only behind
\* the last row, unless the query was run again after its end (by the next
\* GoToRow or GoToNextRow, or on the way back from counting) without the Reset
\* that clears it.
StepAgrees ==
    /\ step.rowPos >= 0 => step.stmt.at = step.rowPos + 1 /\ step.stmt.at <= Len(step.stmt.rows)
    /\ step.rowCount = INIT_POS \/ step.rowCount = Len(step.run)
    /\ step.isAfterLast => step.rowPos = INIT_POS \/ step.restarted

\* Counting the rows leaves the cursor where it was, on the way to the end and
\* back through a second run, unless a step failed or the table has changed
\* since the run began.
StepCountKeepsCursor ==
    [][(/\ \E thread \in Threads : DoStepRowCount(thread, NoTrouble)
        /\ step.stmt = NoStatement \/ step.stmt.at = 0 \/ step.stmt.rows = table)
       => step'.rowPos = step.rowPos]_step
=============================================================================
