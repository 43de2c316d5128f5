------------------------------- MODULE Server -------------------------------
(***************************************************************************)
(* cmd/server/server.go: the accept loop of Serve, the goroutine that      *)
(* waits for a signal, and one handler goroutine (handleClient) for every  *)
(* connection that got a slot of the semaphore sem.  The handlers share    *)
(* the counters of internal/stats, which are atomic, and srv.cfg, which    *)
(* CONFIG SET writes without a lock: requirepass is a string, two words in *)
(* memory, and a reader may see one word of each of two values.            *)
(*                                                                         *)
(* handleClient never ends a session that is idle: it passes the deadline  *)
(* of a context that has none to SetDeadline, which clears the deadline.   *)
(***************************************************************************)
EXTENDS Integers, FiniteSets

CONSTANTS
  Conns,          \* the connections that clients open
  MaxClients,     \* cfg.MaxClients when Serve starts: the capacity of sem
  Passwords,      \* values of requirepass
  NoPass,         \* the empty one of them
  InitPass,       \* cfg.RequirePass when Serve starts
  MaxCommands     \* bound: commands handled

ASSUME ServerConstants ==
  /\ MaxClients \in Nat
  /\ NoPass \in Passwords /\ InitPass \in Passwords
  /\ MaxCommands \in Nat

VARIABLES
  proc,         \* the process: up, returned from main, or crashed
  ctx, ln,      \* the context and the listener
  sig,          \* how far the signal goroutine is
  serve,        \* the accept loop: in Accept or at the select
  sem,          \* slots taken
  pc,           \* each connection, from the client's dial to its handler's end
  pass,         \* srv.cfg.RequirePass, its length word and its pointer word
  authed,       \* sessions whose variable authenticated is true
  arg,          \* the password that a session is comparing or setting
  seen,         \* the words of requirepass that a session saw first
  stats,        \* ActiveConnections, TotalConnections, TotalCommands
  entitled      \* sessions that showed the password or needed none

loop == <<ctx, ln, sig, serve>>
session == <<authed, arg, seen, entitled>>
vars == <<proc, ctx, ln, sig, serve, sem, pc, pass, authed, arg, seen, stats, entitled>>

Init ==
  /\ proc = "up"
  /\ ctx = "live" /\ ln = "open"
  /\ sig = "waiting"
  /\ serve = "accept"
  /\ sem = 0
  /\ pc = [c \in Conns |-> "new"]
  /\ pass = [len |-> InitPass, ptr |-> InitPass]
  /\ authed = {}
  /\ arg = [c \in Conns |-> NoPass]
  /\ seen = [c \in Conns |-> pass]
  /\ stats = [active |-> 0, total |-> 0, commands |-> 0]
  /\ entitled = {}

Goto(c, there) == pc' = [pc EXCEPT ![c] = there]
-----------------------------------------------------------------------------
(***************************************************************************)
(* Clients, and the operator who sends SIGINT or SIGTERM.                  *)
(***************************************************************************)
Dial(c) ==
  /\ proc = "up" /\ ln = "open" /\ pc[c] = "new"
  /\ Goto(c, "backlog")
  /\ UNCHANGED <<proc, loop, sem, pass, session, stats>>

\* Noticed only in Parse, so a client that goes away at any other time is one
\* that does when its handler gets there.
HangUp(c) ==
  /\ proc = "up" /\ pc[c] = "reading"
  /\ Goto(c, "hung")
  /\ UNCHANGED <<proc, loop, sem, pass, session, stats>>

Signal ==
  /\ proc = "up" /\ sig = "waiting"
  /\ sig' = "received"
  /\ UNCHANGED <<proc, ctx, ln, serve, sem, pc, pass, session, stats>>

\* The signal goroutine: cancel(), then ln.Close().
Cancel ==
  /\ proc = "up" /\ sig = "received"
  /\ sig' = "cancelled" /\ ctx' = "cancelled"
  /\ UNCHANGED <<proc, ln, serve, sem, pc, pass, session, stats>>
CloseListener ==
  /\ proc = "up" /\ sig = "cancelled"
  /\ sig' = "done" /\ ln' = "closed"
  /\ UNCHANGED <<proc, ctx, serve, sem, pc, pass, session, stats>>
-----------------------------------------------------------------------------
(***************************************************************************)
(* The accept loop.                                                        *)
(***************************************************************************)
Accept(c) ==
  /\ proc = "up" /\ serve = "accept" /\ ln = "open" /\ pc[c] = "backlog"
  /\ serve' = "select" /\ Goto(c, "accepted")
  /\ UNCHANGED <<proc, ctx, ln, sig, sem, pass, session, stats>>

\* Faulty variant: every error is taken for a passing one.
AcceptFailGoesOn ==
  /\ proc = "up" /\ serve = "accept"
  /\ UNCHANGED vars

\* Accept returns an error: for good once the listener is closed, at any other
\* time if the system is short of something.  Serve returns if the context is
\* done and otherwise tries again; when it returns, so does main, and the
\* handlers are cut off where they are.
AcceptFail ==
  /\ proc = "up" /\ serve = "accept"
  /\ proc' = IF ctx = "cancelled" THEN "returned" ELSE "up"
  /\ UNCHANGED <<loop, sem, pc, pass, session, stats>>

Admit(c) ==
  /\ proc = "up" /\ serve = "select" /\ pc[c] = "accepted"
  /\ sem < MaxClients
  /\ sem' = sem + 1
  /\ serve' = "accept" /\ Goto(c, "spawned")
  /\ UNCHANGED <<proc, ctx, ln, sig, pass, session, stats>>

\* Also ready if a slot is free: select takes either.
AdmitCancelled(c) ==
  /\ proc = "up" /\ serve = "select" /\ pc[c] = "accepted"
  /\ ctx = "cancelled"
  /\ proc' = "returned" /\ Goto(c, "refused")
  /\ UNCHANGED <<loop, sem, pass, session, stats>>

Refuse(c) ==
  /\ proc = "up" /\ serve = "select" /\ pc[c] = "accepted"
  /\ sem = MaxClients /\ ctx = "live"
  /\ serve' = "accept" /\ Goto(c, "refused")
  /\ UNCHANGED <<proc, ctx, ln, sig, sem, pass, session, stats>>
-----------------------------------------------------------------------------
(***************************************************************************)
(* A handler, from its start to the loop.                                  *)
(***************************************************************************)
At(c, here) == proc = "up" /\ pc[c] = here

CountTotal(c) ==
  /\ At(c, "spawned")
  /\ stats' = [stats EXCEPT !.total = @ + 1]
  /\ Goto(c, "counted")
  /\ UNCHANGED <<proc, loop, sem, pass, session>>

\* Faulty variant: the connection is not counted.
CountActiveNot(c) ==
  /\ At(c, "counted")
  /\ Goto(c, "greeting")
  /\ UNCHANGED <<proc, loop, sem, pass, session, stats>>

CountActive(c) ==
  /\ At(c, "counted")
  /\ stats' = [stats EXCEPT !.active = @ + 1]
  /\ Goto(c, "greeting")
  /\ UNCHANGED <<proc, loop, sem, pass, session>>

\* authenticated := srv.cfg.RequirePass == "", a test of the length word.
Greet(c) ==
  /\ At(c, "greeting")
  /\ IF pass.len = NoPass
     THEN authed' = authed \cup {c} /\ entitled' = entitled \cup {c}
     ELSE UNCHANGED <<authed, entitled>>
  /\ Goto(c, "reading")
  /\ UNCHANGED <<proc, loop, sem, pass, arg, seen, stats>>
-----------------------------------------------------------------------------
(***************************************************************************)
(* The loop of a handler: Parse returns a command or an error.             *)
(***************************************************************************)
\* Faulty variant: the loop goes on after an error.
ReadFailGoesOn(c) ==
  /\ At(c, "hung")
  /\ UNCHANGED vars

\* The client has closed the connection: reading from it fails.
ReadFail(c) ==
  /\ At(c, "hung")
  /\ Goto(c, "leaving")
  /\ UNCHANGED <<proc, loop, sem, pass, session, stats>>

\* The client sent something Parse rejects.
ParseError(c) ==
  /\ At(c, "reading")
  /\ Goto(c, "leaving")
  /\ UNCHANGED <<proc, loop, sem, pass, session, stats>>

\* AUTH in a session that is not authenticated: the comparison begins.
Auth(c, p) ==
  /\ At(c, "reading") /\ c \notin authed
  /\ arg' = [arg EXCEPT ![c] = p]
  /\ seen' = [seen EXCEPT ![c] = pass]
  /\ Goto(c, "auth")
  /\ UNCHANGED <<proc, loop, sem, pass, authed, entitled, stats>>

\* The strings that the words of requirepass amount to, read one by one now
\* and when the comparison began.
Words(c) == [len : {seen[c].len, pass.len}, ptr : {seen[c].ptr, pass.ptr}]

\* Faulty variant: the texts are compared, the lengths are not.
EqualTexts(w, p) == w.ptr = p

\* A length of one password and the text of another equal neither; the empty
\* string needs no text.
Equal(w, p) == w.len = p /\ (w.ptr = p \/ p = NoPass)

\* A length with no text behind it: the comparison reads address 0.
NilText(w, p) == w.len = p /\ p # NoPass /\ w.ptr = NoPass

AuthReply(c) ==
  /\ At(c, "auth")
  /\ \E w \in Words(c) :
       IF NilText(w, arg[c])
       THEN proc' = "crashed" /\ UNCHANGED <<pc, authed, arg, seen, entitled>>
       ELSE /\ IF Equal(w, arg[c]) THEN authed' = authed \cup {c} ELSE UNCHANGED authed
            /\ entitled' = IF arg[c] \in {seen[c].len, pass.len}
                           THEN entitled \cup {c} ELSE entitled
            /\ arg' = [arg EXCEPT ![c] = NoPass]
            /\ seen' = [seen EXCEPT ![c] = [len |-> InitPass, ptr |-> InitPass]]
            /\ Goto(c, "reading") /\ UNCHANGED proc
  /\ UNCHANGED <<loop, sem, pass, stats>>

\* Commands other than PING, QUIT and COMMAND need an authenticated session;
\* without it the answer is NOAUTH and nothing happens.
Passes(c) == c \in authed

Counted == stats.commands < MaxCommands /\ stats' = [stats EXCEPT !.commands = @ + 1]

\* PING, QUIT, COMMAND.
HandlePublic(c) ==
  /\ At(c, "reading") /\ Counted
  /\ UNCHANGED <<proc, loop, sem, pc, pass, session>>

\* A command that works on the engine (what it does there is Commands), or a
\* CONFIG SET of anything else: of maxclients, timeout and log_level nothing
\* reads the new value to any effect but CONFIG GET.
HandlePrivate(c) ==
  /\ At(c, "reading") /\ Passes(c) /\ Counted
  /\ UNCHANGED <<proc, loop, sem, pc, pass, session>>

\* INFO loads one counter after the other, ActiveConnections last.
Info(c) ==
  /\ At(c, "reading") /\ Passes(c) /\ Counted
  /\ Goto(c, "info")
  /\ UNCHANGED <<proc, loop, sem, pass, session>>
InfoReply(c) ==
  /\ At(c, "info")
  /\ Goto(c, "reading")
  /\ UNCHANGED <<proc, loop, sem, pass, session, stats>>

\* CONFIG SET requirepass stores the two words of the new string.
ConfigSetPass(c, p) ==
  /\ At(c, "reading") /\ Passes(c) /\ Counted
  /\ pass' = [pass EXCEPT !.len = p]
  /\ arg' = [arg EXCEPT ![c] = p]
  /\ Goto(c, "setpass")
  /\ UNCHANGED <<proc, loop, sem, authed, seen, entitled>>
ConfigSetReply(c) ==
  /\ At(c, "setpass")
  /\ pass' = [pass EXCEPT !.ptr = arg[c]]
  /\ arg' = [arg EXCEPT ![c] = NoPass]
  /\ Goto(c, "reading")
  /\ UNCHANGED <<proc, loop, sem, authed, seen, entitled, stats>>
-----------------------------------------------------------------------------
(***************************************************************************)
(* The deferred calls of a handler, the last one deferred first.           *)
(***************************************************************************)
\* Faulty variant: the slot is freed while the connection is still counted.
UncountFrees(c) ==
  /\ At(c, "leaving")
  /\ sem' = sem - 1
  /\ Goto(c, "done")
  /\ UNCHANGED <<proc, loop, pass, session, stats>>

Uncount(c) ==
  /\ At(c, "leaving")
  /\ stats' = [stats EXCEPT !.active = @ - 1]
  /\ Goto(c, "closing")
  /\ UNCHANGED <<proc, loop, sem, pass, session>>

\* Faulty variant: the slot is not given back.
ReleaseNot(c) ==
  /\ At(c, "closing")
  /\ Goto(c, "done")
  /\ UNCHANGED <<proc, loop, sem, pass, session, stats>>

\* conn.Close(), then the receive from sem.
Release(c) ==
  /\ At(c, "closing")
  /\ sem' = sem - 1
  /\ Goto(c, "done")
  /\ UNCHANGED <<proc, loop, pass, session, stats>>
-----------------------------------------------------------------------------
Serve ==
  \/ AcceptFail
  \/ \E c \in Conns : Accept(c) \/ Admit(c) \/ AdmitCancelled(c) \/ Refuse(c)

\* The steps a handler takes without waiting for its client.
Proceed(c) ==
  \/ CountTotal(c) \/ CountActive(c) \/ Greet(c)
  \/ AuthReply(c) \/ InfoReply(c) \/ ConfigSetReply(c)
  \/ ReadFail(c) \/ Uncount(c) \/ Release(c)

Request(c) ==
  \/ \E p \in Passwords : Auth(c, p) \/ ConfigSetPass(c, p)
  \/ HandlePublic(c) \/ HandlePrivate(c) \/ Info(c)

Client(c) == Dial(c) \/ HangUp(c) \/ ParseError(c) \/ Request(c)

Next ==
  \/ Signal \/ Cancel \/ CloseListener \/ Serve
  \/ \E c \in Conns : Client(c) \/ Proceed(c)

Spec == Init /\ [][Next]_vars

\* Goroutines that can run do, and reading from a closed connection returns.
Fairness ==
  /\ WF_vars(Cancel \/ CloseListener) /\ WF_vars(Serve)
  /\ \A c \in Conns : WF_vars(Proceed(c))

FairSpec == Spec /\ Fairness
-----------------------------------------------------------------------------
\* Connections whose handler has a slot, and those it counts as active.
Active == {"greeting", "reading", "hung", "auth", "info", "setpass", "leaving"}
Holding == Active \cup {"spawned", "counted", "closing"}
In(phases) == {c \in Conns : pc[c] \in phases}

TypeOK ==
  /\ proc \in {"up", "returned", "crashed"}
  /\ ctx \in {"live", "cancelled"} /\ ln \in {"open", "closed"}
  /\ sig \in {"waiting", "received", "cancelled", "done"}
  /\ serve \in {"accept", "select"}
  /\ sem \in Nat
  /\ pc \in [Conns -> Holding \cup {"new", "backlog", "accepted", "refused", "done"}]
  /\ authed \subseteq Conns /\ entitled \subseteq Conns
  /\ pass \in [len : Passwords, ptr : Passwords]
  /\ arg \in [Conns -> Passwords]
  /\ seen \in [Conns -> [len : Passwords, ptr : Passwords]]
  /\ stats \in [active : Nat, total : Nat, commands : Nat]

\* No slot of the semaphore is lost and none is given out twice: the slots
\* taken are those of the handlers that have not ended, however their sessions
\* went, and never more than the MaxClients that Serve started with.
SlotsExact ==
  /\ sem = Cardinality(In(Holding))
  /\ sem <= MaxClients

\* connected_clients in INFO counts the client that asks and never exceeds
\* MaxClients nor total_connections_received, although handlers start and end
\* while INFO loads its counters: a handler counts its connection in that
\* order, and uncounts it before it frees its slot.
InfoBounded ==
  \A c \in Conns :
    pc[c] = "info" => stats.active \in 1..MaxClients /\ stats.active <= stats.total

\* A command other than PING, QUIT and COMMAND is executed only in a session
\* that began when no password was set, or that sent the password in force at
\* some moment of the comparison, while other sessions change the password.
RunsEntitled ==
  [][\A c \in Conns :
       HandlePrivate(c) \/ Info(c) \/ (\E p \in Passwords : ConfigSetPass(c, p))
         => c \in entitled]_vars

\* When a client is gone, its handler ends and frees its slot, unless the
\* process ends first: a moment comes when no slot is held for such a client.
SlotFreed ==
  In({"hung"}) # {} ~> (In({"hung", "leaving", "closing"}) = {} \/ proc # "up")

\* After SIGINT or SIGTERM Serve returns, also if clients go on dialling,
\* asking or keeping quiet.
SignalStops == sig = "received" ~> proc # "up"
=============================================================================
