---------------------------- MODULE ServerProofs ----------------------------
(***************************************************************************)
(* The invariants of Server for every set of connections, every MaxClients *)
(* and every set of passwords.  Neither the semaphore nor the counters say *)
(* which handlers they stand for, so the inductive invariant ties each to  *)
(* the set of handlers in the phases where it is held; it also needs that  *)
(* a session is authenticated only if it is entitled.  The last theorem is *)
(* about Config, which the server starts from.                             *)
(***************************************************************************)
EXTENDS Server, Config, FiniteSetTheorems, TLAPS

\* Connections that TotalConnections counts and whose handler has not ended.
Begun == Active \cup {"counted"}

Tallied ==
  /\ IsFiniteSet(In(Holding)) /\ sem = Cardinality(In(Holding))
  /\ IsFiniteSet(In(Active)) /\ stats.active = Cardinality(In(Active))
  /\ IsFiniteSet(In(Begun)) /\ stats.total >= Cardinality(In(Begun))

IInv ==
  /\ TypeOK
  /\ Tallied
  /\ sem <= MaxClients
  /\ authed \subseteq entitled

\* A handler that goes from one phase to another (an assignment of pc for one
\* connection) enters or leaves a set of phases by at most itself.
LEMMA Moved ==
  ASSUME TypeOK, NEW c \in Conns, NEW there, NEW P, Goto(c, there),
         IsFiniteSet(In(P))
  PROVE  /\ IsFiniteSet(In(P)')
         /\ Cardinality(In(P)') =
              IF there \in P
              THEN IF pc[c] \in P THEN Cardinality(In(P)) ELSE Cardinality(In(P)) + 1
              ELSE IF pc[c] \in P THEN Cardinality(In(P)) - 1 ELSE Cardinality(In(P))
<1>1. In(P)' = IF there \in P THEN In(P) \cup {c} ELSE In(P) \ {c}
  BY DEF TypeOK, Goto, In
<1>2. c \in In(P) <=> pc[c] \in P
  BY DEF In
<1>3. IsFiniteSet(In(P) \cup {c}) /\ Cardinality(In(P) \cup {c}) =
        IF c \in In(P) THEN Cardinality(In(P)) ELSE Cardinality(In(P)) + 1
  BY FS_AddElement
<1>4. IsFiniteSet(In(P) \ {c}) /\ Cardinality(In(P) \ {c}) =
        IF c \in In(P) THEN Cardinality(In(P)) - 1 ELSE Cardinality(In(P))
  BY FS_RemoveElement
<1> QED
  BY <1>1, <1>2, <1>3, <1>4

\* Steps between two phases with the same slot and the same counts leave the
\* accounts as they are: reading, answering, AUTH, CONFIG SET, INFO.
LEMMA Kept ==
  ASSUME IInv, NEW c \in Conns, NEW there, Goto(c, there),
         UNCHANGED <<sem, stats.active, stats.total>>,
         \A P \in {Holding, Active, Begun} : there \in P <=> pc[c] \in P
  PROVE  Tallied'
<1>1. IsFiniteSet(In(Holding)') /\ Cardinality(In(Holding)') = Cardinality(In(Holding))
  BY Moved DEF IInv, Tallied
<1>2. IsFiniteSet(In(Active)') /\ Cardinality(In(Active)') = Cardinality(In(Active))
  BY Moved DEF IInv, Tallied
<1>3. IsFiniteSet(In(Begun)') /\ Cardinality(In(Begun)') = Cardinality(In(Begun))
  BY Moved DEF IInv, Tallied
<1> QED
  BY <1>1, <1>2, <1>3 DEF IInv, Tallied

\* The accounts depend on nothing but pc, sem and the counters.
LEMMA Unmoved ==
  ASSUME IInv, UNCHANGED <<pc, sem, stats.active, stats.total>>
  PROVE  Tallied'
BY DEF IInv, Tallied, In

\* The start of Serve: no handler, no slot taken, all counters 0.
LEMMA InitIInv == Init => IInv
<1> SUFFICES ASSUME Init PROVE IInv
  OBVIOUS
<1>1. In(Holding) = {} /\ In(Active) = {} /\ In(Begun) = {}
  BY DEF Init, In, Holding, Active, Begun
<1>2. Tallied
  BY <1>1, FS_EmptySet DEF Init, Tallied
<1>3. TypeOK
  BY ServerConstants DEF Init, TypeOK
<1> QED
  BY <1>2, <1>3, ServerConstants DEF Init, IInv

\* The accept loop, the signal goroutine and the clients keep the invariant: a
\* slot is taken exactly when a handler starts.
LEMMA LoopKeeps ==
  ASSUME IInv, NEW c \in Conns,
         Signal \/ Cancel \/ CloseListener \/ AcceptFail \/ Accept(c) \/ Admit(c)
           \/ AdmitCancelled(c) \/ Refuse(c) \/ Dial(c) \/ HangUp(c)
  PROVE  IInv'
<1> USE DEF loop, session
<1>1. CASE Signal \/ Cancel \/ CloseListener \/ AcceptFail
  <2>1. Tallied'
    BY <1>1, Unmoved DEF Signal, Cancel, CloseListener, AcceptFail
  <2> QED
    BY <1>1, <2>1 DEF Signal, Cancel, CloseListener, AcceptFail, IInv, TypeOK
<1>2. CASE Accept(c) \/ AdmitCancelled(c) \/ Refuse(c) \/ Dial(c) \/ HangUp(c)
  <2>1. Tallied'
    BY <1>2, Kept
    DEF Accept, AdmitCancelled, Refuse, Dial, HangUp, Holding, Active, Begun
  <2> QED
    BY <1>2, <2>1 DEF Accept, AdmitCancelled, Refuse, Dial, HangUp, Goto, IInv, TypeOK, Holding, Active
<1>3. CASE Admit(c)
  <2>1. /\ "spawned" \in Holding /\ "spawned" \notin Active /\ "spawned" \notin Begun
        /\ "accepted" \notin Holding /\ "accepted" \notin Active /\ "accepted" \notin Begun
    BY DEF Holding, Active, Begun
  <2>2. /\ TypeOK /\ Goto(c, "spawned") /\ pc[c] = "accepted"
        /\ \A P \in {Holding, Active, Begun} : IsFiniteSet(In(P))
    BY <1>3 DEF Admit, IInv, Tallied
  <2>3. IsFiniteSet(In(Holding)') /\ Cardinality(In(Holding)') = Cardinality(In(Holding)) + 1
    BY <2>1, <2>2, Moved
  <2>4. IsFiniteSet(In(Active)') /\ Cardinality(In(Active)') = Cardinality(In(Active))
    BY <2>1, <2>2, Moved
  <2>5. IsFiniteSet(In(Begun)') /\ Cardinality(In(Begun)') = Cardinality(In(Begun))
    BY <2>1, <2>2, Moved
  <2>6. Tallied'
    BY <1>3, <2>3, <2>4, <2>5 DEF Admit, IInv, Tallied
  <2> QED
    BY <1>3, <2>6, ServerConstants DEF Admit, Goto, IInv, TypeOK, Holding, Active
<1> QED
  BY <1>1, <1>2, <1>3

\* A handler's own steps keep the invariant: what it counts, it uncounts before
\* it frees its slot, and it authenticates a session only if the password it
\* got is one in force during the comparison.
LEMMA HandlerKeeps ==
  ASSUME IInv, NEW c \in Conns, Proceed(c) \/ ParseError(c)
  PROVE  IInv'
<1> USE DEF loop, session, At
<1>1. CASE CountTotal(c)
  <2>1. /\ IsFiniteSet(In(Holding)') /\ Cardinality(In(Holding)') = Cardinality(In(Holding))
        /\ IsFiniteSet(In(Active)') /\ Cardinality(In(Active)') = Cardinality(In(Active))
        /\ IsFiniteSet(In(Begun)') /\ Cardinality(In(Begun)') = Cardinality(In(Begun)) + 1
    BY <1>1, Moved DEF CountTotal, IInv, Tallied, Holding, Active, Begun
  <2>2. Cardinality(In(Begun)) \in Nat
    BY FS_CardinalityType DEF IInv, Tallied
  <2>3. Tallied'
    BY <1>1, <2>1, <2>2 DEF CountTotal, IInv, Tallied, TypeOK
  <2> QED
    BY <1>1, <2>3 DEF CountTotal, Goto, IInv, TypeOK, Holding, Active
<1>2. CASE CountActive(c)
  <2>1. /\ IsFiniteSet(In(Holding)') /\ Cardinality(In(Holding)') = Cardinality(In(Holding))
        /\ IsFiniteSet(In(Active)') /\ Cardinality(In(Active)') = Cardinality(In(Active)) + 1
        /\ IsFiniteSet(In(Begun)') /\ Cardinality(In(Begun)') = Cardinality(In(Begun))
    BY <1>2, Moved DEF CountActive, IInv, Tallied, Holding, Active, Begun
  <2>2. Tallied'
    BY <1>2, <2>1 DEF CountActive, IInv, Tallied, TypeOK
  <2> QED
    BY <1>2, <2>2 DEF CountActive, Goto, IInv, TypeOK, Holding, Active
<1>3. CASE Greet(c)
  <2>1. Tallied'
    BY <1>3, Kept DEF Greet, Holding, Active, Begun
  <2> QED
    BY <1>3, <2>1 DEF Greet, Goto, IInv, TypeOK, Holding, Active
<1>4. CASE AuthReply(c)
  <2>1. PICK w \in Words(c) :
          IF NilText(w, arg[c])
          THEN proc' = "crashed" /\ UNCHANGED <<pc, authed, arg, seen, entitled>>
          ELSE /\ IF Equal(w, arg[c]) THEN authed' = authed \cup {c} ELSE UNCHANGED authed
               /\ entitled' = IF arg[c] \in {seen[c].len, pass.len}
                              THEN entitled \cup {c} ELSE entitled
               /\ arg' = [arg EXCEPT ![c] = NoPass]
               /\ seen' = [seen EXCEPT ![c] = [len |-> InitPass, ptr |-> InitPass]]
               /\ Goto(c, "reading") /\ UNCHANGED proc
    BY <1>4 DEF AuthReply
  <2>2. CASE NilText(w, arg[c])
    <3>1. Tallied'
      BY <1>4, <2>1, <2>2, Unmoved DEF AuthReply
    <3> QED
      BY <1>4, <2>1, <2>2, <3>1 DEF AuthReply, IInv, TypeOK
  <2>3. CASE ~NilText(w, arg[c])
    <3>1. Tallied'
      BY <1>4, <2>1, <2>3, Kept DEF AuthReply, Holding, Active, Begun
    <3>2. Equal(w, arg[c]) => arg[c] \in {seen[c].len, pass.len}
      BY DEF Equal, Words
    <3>3. (authed \subseteq entitled)'
      BY <2>1, <2>3, <3>2 DEF IInv
    <3>4. pc' \in [Conns -> Holding \cup {"new", "backlog", "accepted", "refused", "done"}]
      BY <2>1, <2>3 DEF Goto, IInv, TypeOK, Holding, Active
    <3>5. authed' \subseteq Conns /\ entitled' \subseteq Conns
      BY <2>1, <2>3 DEF IInv, TypeOK
    <3>6. /\ arg' \in [Conns -> Passwords]
          /\ seen' \in [Conns -> [len : Passwords, ptr : Passwords]]
      BY <2>1, <2>3, ServerConstants DEF IInv, TypeOK
    <3>7. TypeOK'
      BY <1>4, <2>1, <2>3, <3>4, <3>5, <3>6 DEF AuthReply, IInv, TypeOK
    <3> QED
      BY <1>4, <3>1, <3>3, <3>7 DEF AuthReply, IInv
  <2> QED
    BY <2>2, <2>3
<1>5. CASE InfoReply(c) \/ ReadFail(c) \/ ParseError(c) \/ ConfigSetReply(c)
  <2>1. Tallied'
    BY <1>5, Kept DEF InfoReply, ReadFail, ParseError, ConfigSetReply, Holding, Active, Begun
  <2>2. TypeOK'
    <3>1. CASE InfoReply(c) \/ ReadFail(c) \/ ParseError(c)
      BY <3>1 DEF InfoReply, ReadFail, ParseError, Goto, IInv, TypeOK, Holding, Active
    <3>2. CASE ConfigSetReply(c)
      BY <3>2, ServerConstants DEF ConfigSetReply, Goto, IInv, TypeOK, Holding, Active
    <3> QED BY <1>5, <3>1, <3>2
  <2> QED
    BY <1>5, <2>1, <2>2 DEF InfoReply, ReadFail, ParseError, ConfigSetReply, IInv
<1>6. CASE Uncount(c)
  <2>1. /\ "closing" \in Holding /\ "leaving" \in Active /\ "closing" \notin Begun
        /\ "closing" \notin Active /\ "leaving" \in Holding /\ "leaving" \in Begun
    BY DEF Holding, Active, Begun
  <2>2. TypeOK /\ Goto(c, "closing") /\ pc[c] = "leaving"
        /\ \A P \in {Holding, Active, Begun} : IsFiniteSet(In(P))
    BY <1>6 DEF Uncount, IInv, Tallied
  <2>3. IsFiniteSet(In(Holding)') /\ Cardinality(In(Holding)') = Cardinality(In(Holding))
    BY <2>1, <2>2, Moved
  <2>4. IsFiniteSet(In(Active)') /\ Cardinality(In(Active)') = Cardinality(In(Active)) - 1
    BY <2>1, <2>2, Moved
  <2>5. IsFiniteSet(In(Begun)') /\ Cardinality(In(Begun)') = Cardinality(In(Begun)) - 1
    BY <2>1, <2>2, Moved
  <2>6. Cardinality(In(Begun)) \in Nat /\ Cardinality(In(Active)') \in Nat
    BY <2>3, <2>4, FS_CardinalityType DEF IInv, Tallied
  <2>7. Tallied'
    BY <1>6, <2>3, <2>4, <2>5, <2>6 DEF Uncount, IInv, Tallied, TypeOK
  <2>8. TypeOK'
    BY <1>6, <2>3, <2>4, <2>5, <2>6 DEF Uncount, Goto, IInv, Tallied, TypeOK, Holding, Active
  <2> QED
    BY <1>6, <2>7, <2>8 DEF Uncount, IInv
<1>7. CASE Release(c)
  <2>1. /\ "closing" \in Holding /\ "done" \notin Holding
        /\ "closing" \notin Begun /\ "done" \notin Begun /\ "closing" \notin Active /\ "done" \notin Active
    BY DEF Holding, Active, Begun
  <2>2. TypeOK /\ Goto(c, "done") /\ pc[c] = "closing"
        /\ \A P \in {Holding, Active, Begun} : IsFiniteSet(In(P))
    BY <1>7 DEF Release, IInv, Tallied
  <2>3. IsFiniteSet(In(Holding)') /\ Cardinality(In(Holding)') = Cardinality(In(Holding)) - 1
    BY <2>1, <2>2, Moved
  <2>4. IsFiniteSet(In(Active)') /\ Cardinality(In(Active)') = Cardinality(In(Active))
    BY <2>1, <2>2, Moved
  <2>5. IsFiniteSet(In(Begun)') /\ Cardinality(In(Begun)') = Cardinality(In(Begun))
    BY <2>1, <2>2, Moved
  <2>6. Cardinality(In(Holding)') \in Nat
    BY <2>3, <2>4, FS_CardinalityType
  <2>7. Tallied'
    BY <1>7, <2>3, <2>4, <2>5 DEF Release, IInv, Tallied
  <2>8. TypeOK' /\ sem' <= MaxClients
    BY <1>7, <2>3, <2>4, <2>5, <2>6, ServerConstants DEF Release, Goto, IInv, Tallied, TypeOK, Holding, Active
  <2> QED
    BY <1>7, <2>7, <2>8 DEF Release, IInv
<1> QED
  BY <1>1, <1>2, <1>3, <1>4, <1>5, <1>6, <1>7 DEF Proceed

\* So do the commands that a handler gets from its client.
LEMMA RequestKeeps ==
  ASSUME IInv, NEW c \in Conns, Request(c)
  PROVE  IInv'
<1> USE DEF loop, session, At, Counted
<1>1. CASE HandlePublic(c) \/ HandlePrivate(c)
  <2>1. Tallied'
    BY <1>1, Unmoved DEF HandlePublic, HandlePrivate, IInv, TypeOK
  <2> QED
    BY <1>1, <2>1 DEF HandlePublic, HandlePrivate, IInv, TypeOK
<1>2. CASE Info(c)
  <2>1. Tallied'
    BY <1>2, Kept DEF Info, Holding, Active, Begun, IInv, TypeOK
  <2> QED
    BY <1>2, <2>1 DEF Info, Goto, IInv, TypeOK, Holding, Active
<1>3. ASSUME NEW p \in Passwords, Auth(c, p) \/ ConfigSetPass(c, p)
      PROVE  IInv'
  <2>1. Tallied'
    BY <1>3, Kept DEF Auth, ConfigSetPass, Holding, Active, Begun, IInv, TypeOK
  <2>2. /\ arg' \in [Conns -> Passwords]
        /\ seen' \in [Conns -> [len : Passwords, ptr : Passwords]]
        /\ pass' \in [len : Passwords, ptr : Passwords]
        /\ stats' \in [active : Nat, total : Nat, commands : Nat]
    BY <1>3 DEF Auth, ConfigSetPass, IInv, TypeOK
  <2>3. pc' \in [Conns -> Holding \cup {"new", "backlog", "accepted", "refused", "done"}]
    BY <1>3 DEF Auth, ConfigSetPass, Goto, IInv, TypeOK, Holding, Active
  <2>4. TypeOK'
    BY <1>3, <2>2, <2>3 DEF Auth, ConfigSetPass, IInv, TypeOK
  <2> QED
    BY <1>3, <2>1, <2>4 DEF Auth, ConfigSetPass, IInv
<1> QED
  BY <1>1, <1>2, <1>3 DEF Request
-----------------------------------------------------------------------------
\* The invariant of the server that the theorems rest on.
THEOREM Accounts == Spec => []IInv
<1>1. IInv /\ [Next]_vars => IInv'
  <2> SUFFICES ASSUME IInv, [Next]_vars PROVE IInv'
    OBVIOUS
  <2>1. CASE Next
    <3>1. CASE Conns = {}
      BY <2>1, <3>1, Unmoved
      DEF Next, Signal, Cancel, CloseListener, Serve, AcceptFail, session, loop, IInv, TypeOK
    <3>2. CASE Conns # {}
      BY <2>1, <3>2, LoopKeeps, HandlerKeeps, RequestKeeps DEF Next, Serve, Client
    <3> QED
      BY <3>1, <3>2
  <2>2. CASE UNCHANGED vars
    <3>1. Tallied'
      BY <2>2, Unmoved DEF vars
    <3> QED
      BY <2>2, <3>1 DEF vars, IInv, TypeOK
  <2> QED
    BY <2>1, <2>2
<1> QED
  BY InitIInv, <1>1, PTL DEF Spec

\* Every variable of the server keeps its type; with it, ActiveConnections and
\* the semaphore never go below zero.
THEOREM ServerTypeCorrect == Spec => []TypeOK
<1>1. IInv => TypeOK
  BY DEF IInv
<1> QED
  BY Accounts, <1>1, PTL

\* The slots taken are those of the handlers that have not ended, and never
\* more than MaxClients.
THEOREM SlotsAlwaysExact == Spec => []SlotsExact
<1>1. IInv => SlotsExact
  BY DEF IInv, Tallied, SlotsExact
<1> QED
  BY Accounts, <1>1, PTL

\* The number of clients in an answer to INFO is between 1 and MaxClients, and
\* at most the number of connections in the same answer.
THEOREM InfoAlwaysBounded == Spec => []InfoBounded
<1>1. IInv => InfoBounded
  <2> SUFFICES ASSUME IInv, NEW c \in Conns, pc[c] = "info"
               PROVE  stats.active \in 1..MaxClients /\ stats.active <= stats.total
    BY DEF InfoBounded
  <2>1. In(Active) \subseteq In(Holding) /\ In(Active) \subseteq In(Begun) /\ In(Active) # {}
    BY DEF In, Holding, Begun, Active
  <2>2. /\ Cardinality(In(Active)) <= Cardinality(In(Holding))
        /\ Cardinality(In(Active)) <= Cardinality(In(Begun))
    BY <2>1, FS_Subset DEF IInv, Tallied
  <2>3. Cardinality(In(Active)) # 0
    BY <2>1, FS_EmptySet DEF IInv, Tallied
  <2>4. Cardinality(In(Begun)) \in Nat
    BY FS_CardinalityType DEF IInv, Tallied
  <2> QED
    BY <2>2, <2>3, <2>4, ServerConstants DEF IInv, Tallied, TypeOK
<1> QED
  BY Accounts, <1>1, PTL

\* A command that needs authentication is executed only in an entitled session,
\* for every interleaving of AUTH with CONFIG SET requirepass.
THEOREM AlwaysRunsEntitled == Spec => RunsEntitled
<1>1. IInv /\ [Next]_vars =>
        [\A c \in Conns :
           HandlePrivate(c) \/ Info(c) \/ (\E p \in Passwords : ConfigSetPass(c, p))
             => c \in entitled]_vars
  BY DEF IInv, HandlePrivate, Info, ConfigSetPass, Passes
<1> QED
  BY Accounts, <1>1, PTL DEF Spec, RunsEntitled
-----------------------------------------------------------------------------
\* For any settings, flags and file, main starts with every setting taken from
\* its flag if the flag is given (with whatever value, the default included),
\* else from the file, else from Default, and does not start with a file that
\* Load cannot decode.
THEOREM FlagsBeforeFile ==
  ASSUME NEW given, DOMAIN given \subseteq Flags,
         NEW file, file.state \in {"missing", "broken", "read"},
         file.state = "read" => DOMAIN file.settings \subseteq DOMAIN Default
  PROVE  InOrder(given, file, Configured(given, file))
<1> DEFINE settings == IF file.state = "read" THEN file.settings ELSE << >>
           cli == ParseFlags(given)
           cfg == Load(file).cfg
<1>1. CASE file.state = "broken" BY <1>1 DEF InOrder, Configured, Load
<1>2. CASE file.state # "broken"
  <2>1. /\ Load(file).ok = "yes" /\ DOMAIN cfg = DOMAIN Default
        /\ \A s \in DOMAIN Default :
             cfg[s] = IF s \in DOMAIN settings THEN settings[s] ELSE Default[s]
    <3>1. CASE file.state = "read"
      <4>1. Load(file).ok = "yes" /\ cfg = Over(file.settings, Default) BY <3>1 DEF Load
      <4> QED BY <3>1, <4>1 DEF Over
    <3>2. CASE file.state = "missing"
      <4>1. Load(file).ok = "yes" /\ cfg = Default BY <3>2 DEF Load
      <4>2. DOMAIN settings = {} BY <3>2
      <4> QED BY <4>1, <4>2
    <3> QED BY <1>2, <3>1, <3>2
  <2>2. \A s \in DOMAIN given : cli[s] = given[s] BY DEF ParseFlags, Over
  <2>3. Configured(given, file) = Merge(cli, cfg, DOMAIN given) BY <2>1 DEF Configured
  <2> HIDE DEF settings, cli, cfg
  <2>4. /\ DOMAIN Merge(cli, cfg, DOMAIN given) = DOMAIN Default
        /\ \A s \in DOMAIN Default : Merge(cli, cfg, DOMAIN given)[s] =
             IF s \in DOMAIN given THEN given[s]
             ELSE IF s \in DOMAIN settings THEN settings[s] ELSE Default[s]
    BY <2>1, <2>2 DEF Merge
  <2> QED BY <1>2, <2>3, <2>4 DEF InOrder, settings
<1> QED BY <1>1, <1>2
=============================================================================
