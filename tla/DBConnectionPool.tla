-------------------------- MODULE DBConnectionPool --------------------------
(***************************************************************************)
(* ServerCore's database layer: DBConnectionPool lends DBConnections, a    *)
(* DBBind binds the caller's variables to the statement of one, executes   *)
(* and fetches (SampleForMsServerDB shows the three uses: a plain query,   *)
(* one with parameters, one with parameters and columns).                  *)
(*                                                                         *)
(* The statement keeps the addresses it was given.  When the connection    *)
(* goes back, the variables go out of scope and the addresses dangle; they *)
(* stay in the statement until somebody unbinds them.  The ODBC driver is  *)
(* external: a call may fail, and succeeds only where its documents allow. *)
(***************************************************************************)
EXTENDS Integers, Sequences, FiniteSets, SequencesExt

CONSTANTS Borrowers,   \* the threads that use the pool
          Conns,       \* the DBConnection objects
          NoConn,      \* nullptr
          Shapes       \* <<ParamCount, ColumnCount>> of the DBBinds

ASSUME NoConnIsNone == NoConn \notin Conns
ASSUME ConnsFinite  == IsFiniteSet(Conns)
ASSUME ShapesAreNat == Shapes \subseteq Nat \X Nat

VARIABLES
  pool,       \* DBConnectionPool::_connections
  stage,      \* "closed", "open", or "failed": Connect returned false
  cursor,     \* per connection: its statement has an open result set
  params,     \* per connection: its bound parameters, [index -> "own"/"stale"]
  cols,       \* per connection: its bound columns
  hand,       \* per borrower: the connection it popped
  shape,      \* per borrower: <<ParamCount, ColumnCount>> of its DBBind
  paramFlag,  \* per borrower: _paramFlag of its DBBind, as a set of indices
  columnFlag, \* per borrower: _columnFlag
  step,       \* per borrower: where it stands
  dangled     \* a query read or wrote through an address out of scope

dbVars == <<pool, stage, cursor, params, cols, hand, shape, paramFlag,
            columnFlag, step, dangled>>

Nothing == [i \in {} |-> "own"]

DBInit == /\ pool = <<>>
          /\ stage = "closed"
          /\ cursor = [c \in Conns |-> FALSE]
          /\ params = [c \in Conns |-> Nothing]
          /\ cols   = [c \in Conns |-> Nothing]
          /\ hand   = [b \in Borrowers |-> NoConn]
          /\ shape  = [b \in Borrowers |-> <<0, 0>>]
          /\ paramFlag  = [b \in Borrowers |-> {}]
          /\ columnFlag = [b \in Borrowers |-> {}]
          /\ step = [b \in Borrowers |-> "away"]
          /\ dangled = FALSE

statement == <<cursor, params, cols>>
binding   == <<shape, paramFlag, columnFlag>>

-----------------------------------------------------------------------------
(* DBConnectionPool *)

\* Connect: the connections come one by one; when one cannot be made, those
\* before it stay in the pool, and the caller (who asserts) is told
Connect ==
  /\ stage = "closed"
  /\ \E made \in SUBSET Conns :
       /\ pool' = SetToSeq(made)
       /\ stage' = IF made = Conns THEN "open" ELSE "failed"
  /\ cursor' = [c \in Conns |-> FALSE]
  /\ params' = [c \in Conns |-> Nothing]
  /\ cols'   = [c \in Conns |-> Nothing]
  /\ UNCHANGED <<hand, binding, step, dangled>>

\* Mutant: the connection is returned and stays in _connections.
PopBack(b) ==
  /\ step[b] = "away" /\ stage = "open"
  /\ IF pool = <<>>
       THEN UNCHANGED hand
       ELSE hand' = [hand EXCEPT ![b] = Last(pool)]
  /\ step' = [step EXCEPT ![b] = IF pool = <<>> THEN "refused" ELSE "holds"]
  /\ UNCHANGED <<pool, stage, statement, binding, dangled>>

\* Pop: back() and pop_back(), or nullptr
Pop(b) ==
  /\ step[b] = "away" /\ stage = "open"
  /\ IF pool = <<>>
       THEN UNCHANGED <<pool, hand>>
       ELSE /\ hand' = [hand EXCEPT ![b] = Last(pool)]
            /\ pool' = Front(pool)
  /\ step' = [step EXCEPT ![b] = IF pool = <<>> THEN "refused" ELSE "holds"]
  /\ UNCHANGED <<stage, statement, binding, dangled>>

\* a borrower that looked at the nullptr it got
GiveUp(b) ==
  /\ step[b] = "refused"
  /\ step' = [step EXCEPT ![b] = "away"]
  /\ UNCHANGED <<pool, stage, statement, hand, binding, dangled>>

Stale(bound) == [i \in DOMAIN bound |-> "stale"]

\* Push, and the end of the scope that held the DBBind and its variables
Push(b) ==
  /\ hand[b] # NoConn
  /\ pool' = Append(pool, hand[b])
  /\ hand' = [hand EXCEPT ![b] = NoConn]
  /\ params' = [params EXCEPT ![hand[b]] = Stale(@)]
  /\ cols'   = [cols EXCEPT ![hand[b]] = Stale(@)]
  /\ step' = [step EXCEPT ![b] = "away"]
  /\ UNCHANGED <<stage, cursor, binding, dangled>>

\* Clear: the connections are deleted; from the destructor, or to start anew,
\* when nobody has one
ClearPool ==
  /\ stage # "closed"
  /\ \A b \in Borrowers : hand[b] = NoConn
  /\ stage' = "closed"
  /\ pool' = <<>>
  /\ UNCHANGED <<statement, hand, binding, step, dangled>>

-----------------------------------------------------------------------------
(* DBBind *)

\* Mutant: the constructor resets its flags and nothing else.
MakeBindOnly(b, s) ==
  /\ step[b] = "holds"
  /\ shape' = [shape EXCEPT ![b] = s]
  /\ paramFlag'  = [paramFlag EXCEPT ![b] = {}]
  /\ columnFlag' = [columnFlag EXCEPT ![b] = {}]
  /\ step' = [step EXCEPT ![b] = "binds"]
  /\ UNCHANGED <<pool, stage, statement, hand, dangled>>

\* the constructor: no flags, and Unbind (UNBIND, RESET_PARAMS, CLOSE)
MakeBind(b, s) ==
  /\ step[b] = "holds"
  /\ shape' = [shape EXCEPT ![b] = s]
  /\ paramFlag'  = [paramFlag EXCEPT ![b] = {}]
  /\ columnFlag' = [columnFlag EXCEPT ![b] = {}]
  /\ params' = [params EXCEPT ![hand[b]] = Nothing]
  /\ cols'   = [cols EXCEPT ![hand[b]] = Nothing]
  /\ cursor' = [cursor EXCEPT ![hand[b]] = FALSE]
  /\ step' = [step EXCEPT ![b] = "binds"]
  /\ UNCHANGED <<pool, stage, hand, dangled>>

\* an address of the caller's at this index, of any type
Bound(bound, i) == [k \in DOMAIN bound \cup {i} |-> IF k = i THEN "own" ELSE bound[k]]

\* SQLBindParameter or SQLBindCol, which the driver may refuse
Attempted(bound, i, ok) == IF ok THEN Bound(bound, i) ELSE bound

\* BindParam: the flag is set whatever DBConnection::BindParam returns
BindParam(b, i) ==
  /\ step[b] = "binds" /\ i \in 1..shape[b][1] \ paramFlag[b]
  /\ paramFlag' = [paramFlag EXCEPT ![b] = @ \cup {i}]
  /\ \E ok \in BOOLEAN :
       params' = [params EXCEPT ![hand[b]] = Attempted(@, i, ok)]
  /\ UNCHANGED <<pool, stage, cursor, cols, hand, shape, columnFlag, step, dangled>>

\* BindCol, likewise
BindCol(b, i) ==
  /\ step[b] = "binds" /\ i \in 1..shape[b][2] \ columnFlag[b]
  /\ columnFlag' = [columnFlag EXCEPT ![b] = @ \cup {i}]
  /\ \E ok \in BOOLEAN :
       cols' = [cols EXCEPT ![hand[b]] = Attempted(@, i, ok)]
  /\ UNCHANGED <<pool, stage, cursor, params, hand, shape, paramFlag, step, dangled>>

Validate(b) == paramFlag[b] = 1..shape[b][1] /\ columnFlag[b] = 1..shape[b][2]

\* what SQLExecDirect needs: no open result set, a value for every marker
CanExecute(c, markers) == ~cursor[c] /\ 1..markers \subseteq DOMAIN params[c]

\* Execute of a DBBind, whose assertion Validate holds; SQLExecDirect reads
\* the parameters, and opens a result set for a query that has columns
Execute(b) ==
  LET c == hand[b]
      markers == shape[b][1]
  IN /\ step[b] = "binds" /\ Validate(b)
     /\ \E ok \in BOOLEAN :
          /\ ok => CanExecute(c, markers)
          /\ cursor' = [cursor EXCEPT ![c] = @ \/ (ok /\ shape[b][2] > 0)]
          /\ dangled' = (dangled \/ (ok /\ \E i \in 1..markers : params[c][i] = "stale"))
          /\ step' = [step EXCEPT ![b] = IF ok THEN "executed" ELSE "failed"]
     /\ UNCHANGED <<pool, stage, params, cols, hand, binding>>

\* DBConnection::Execute of a query without markers or columns, no DBBind
ExecutePlain(b) ==
  /\ step[b] = "holds"
  /\ \E ok \in BOOLEAN :
       /\ ok => CanExecute(hand[b], 0)
       /\ step' = [step EXCEPT ![b] = IF ok THEN "executed" ELSE "failed"]
  /\ UNCHANGED <<pool, stage, statement, hand, binding, dangled>>

\* Fetch: a row goes to the columns that are bound; or there is none, and the
\* result set stays open
Fetch(b) ==
  LET c == hand[b]
  IN /\ step[b] = "executed" /\ cursor[c]
     /\ \E row \in BOOLEAN :
          /\ dangled' = (dangled \/ (row /\ \E i \in DOMAIN cols[c] :
                                             i <= shape[b][2] /\ cols[c][i] = "stale"))
          /\ step' = [step EXCEPT ![b] = IF row THEN "executed" ELSE "fetched"]
     /\ UNCHANGED <<pool, stage, statement, hand, binding>>

-----------------------------------------------------------------------------
Borrow(b) == \/ Pop(b) \/ GiveUp(b) \/ Push(b)
             \/ \E s \in Shapes : MakeBind(b, s)
             \/ \E i \in 1..shape[b][1] : BindParam(b, i)
             \/ \E i \in 1..shape[b][2] : BindCol(b, i)
             \/ Execute(b) \/ ExecutePlain(b) \/ Fetch(b)

DBNext == Connect \/ ClearPool \/ \E b \in Borrowers : Borrow(b)

DBSpec == DBInit /\ [][DBNext]_dbVars

-----------------------------------------------------------------------------
(* Properties *)

(* No two borrowers use one statement: a connection is in the pool once, or *)
(* in one hand (DBConnectionPool::Pop, Push, Clear).                        *)
ConnectionInOneHand ==
  /\ \A i, k \in 1..Len(pool) : pool[i] = pool[k] => i = k
  /\ \A b, d \in Borrowers : hand[b] = hand[d] /\ hand[b] # NoConn => b = d
  /\ \A b \in Borrowers : \A i \in 1..Len(pool) : pool[i] # hand[b]

(* A query of a DBBind uses the variables of its own borrower and no others,*)
(* whatever an earlier borrower left in the statement and whichever binding *)
(* the driver refused (DBBind::DBBind, DBConnection::Unbind).               *)
OwnBindings == ~dangled
=============================================================================
