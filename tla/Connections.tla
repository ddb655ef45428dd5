----------------------------- MODULE Connections -----------------------------
(***************************************************************************)
(* Sockets, ServerConnection and ClientConnect (network.cpp).  A Socket is *)
(* an object that owns a descriptor or Bad; descriptors are given by the   *)
(* system, lowest first, and given again once closed.  Listening and       *)
(* connecting try the addresses of a host in turn; every attempt makes a   *)
(* new descriptor in the same Socket.                                      *)
(***************************************************************************)
EXTENDS Naturals

CONSTANTS Fds,        \* descriptors, numbers
          Bad,        \* kBadSocket
          Users,      \* Socket objects of the program
          MaxAddresses

Server == "server"    \* ServerConnection::m_socket
Result == "result"    \* the local Socket of ClientConnect
Sockets == Users \cup {Server, Result}

VARIABLES owns,       \* [Sockets -> Fds \cup {Bad}]: m_socket
          state,      \* [Fds -> {"closed", "new", "listening", "connected"}]
          attempt     \* the running GetAddrInfo: who for, addresses left, what to do

vars == <<owns, state, attempt>>
NoAttempt == [for |-> "nobody", left |-> 0, return |-> "nobody"]

Init == /\ owns = [s \in Sockets |-> Bad]
        /\ state = [f \in Fds |-> "closed"]
        /\ attempt = NoAttempt

Idle == attempt = NoAttempt
Closed == {f \in Fds : state[f] = "closed"}
NewFd == IF Closed = {} THEN Bad ELSE CHOOSE f \in Closed : \A g \in Closed : f <= g

(* Mistake: the descriptor that is overwritten is forgotten. *)
AssignLeaks(s, f, st) == /\ owns' = [owns EXCEPT ![s] = f]
                         /\ state' = IF f = Bad THEN state ELSE [state EXCEPT ![f] = st]

(* What s owns is closed and f, in state st, takes its place.              *)
Assign(s, f, st) ==
    /\ owns' = [owns EXCEPT ![s] = f]
    /\ state' = [g \in Fds |-> IF g = f THEN st ELSE IF g = owns[s] THEN "closed" ELSE state[g]]

(* Close, the destructor, and assigning an empty Socket. *)
Close(s) == Idle /\ Assign(s, Bad, "closed") /\ UNCHANGED attempt

(* Move assignment closes, takes and empties the other; from itself, it    *)
(* only closes.                                                            *)
Move(s, t) ==
    /\ Idle
    /\ owns' = IF s = t THEN [owns EXCEPT ![s] = Bad] ELSE [owns EXCEPT ![s] = owns[t], ![t] = Bad]
    /\ state' = [f \in Fds |-> IF f = owns[s] THEN "closed" ELSE state[f]]
    /\ UNCHANGED attempt

(* Listen and ClientConnect begin with a list of addresses, or with none   *)
(* if the lookup fails; connecting returns its Socket into one of the      *)
(* user's.                                                                 *)
Listen(n) == /\ Idle
             /\ attempt' = [for |-> Server, left |-> n, return |-> Server]
             /\ UNCHANGED <<owns, state>>
Connect(s, n) == /\ Idle
                 /\ attempt' = [for |-> Result, left |-> n, return |-> s]
                 /\ UNCHANGED <<owns, state>>

(* One address.  The new descriptor is made before the one of the attempt  *)
(* before is closed; bind, listen or connect may fail and leave it.        *)
TryAddress(works) ==
    LET f == NewFd
        s == attempt.for
    IN  /\ ~ Idle /\ attempt.left > 0
        /\ works => f # Bad
        /\ Assign(s, f, IF ~ works THEN "new" ELSE IF s = Server THEN "listening" ELSE "connected")
        /\ attempt' = [attempt EXCEPT !.left = IF works THEN 0 ELSE @ - 1]

(* The end of Listen: its result says whether the socket listens, the      *)
(* socket itself does not.  ClientConnect moves its Socket out when it is  *)
(* connected, and destroys it otherwise; the caller's assignment closes    *)
(* what it had.                                                            *)
Connected == owns[Result] # Bad /\ state[owns[Result]] = "connected"
Return ==
    /\ ~ Idle /\ attempt.left = 0
    /\ IF attempt.for = Server THEN UNCHANGED <<owns, state>>
       ELSE LET s == attempt.return
                f == IF Connected THEN owns[Result] ELSE Bad
            IN  /\ owns' = [owns EXCEPT ![s] = f, ![Result] = Bad]
                /\ state' = [g \in Fds |-> IF g # f /\ g \in {owns[s], owns[Result]} THEN "closed"
                                           ELSE state[g]]
    /\ attempt' = NoAttempt

(* Accept gives a new connected descriptor, or fails. *)
Accept(s, works) ==
    /\ Idle
    /\ works => NewFd # Bad /\ owns[Server] # Bad /\ state[owns[Server]] = "listening"
    /\ Assign(s, IF works THEN NewFd ELSE Bad, "connected")
    /\ UNCHANGED attempt

Next == \/ \E s \in Users \cup {Server} : Close(s)
        \/ \E s, t \in Users : Move(s, t)
        \/ \E n \in 0 .. MaxAddresses : Listen(n) \/ \E s \in Users : Connect(s, n)
        \/ \E works \in BOOLEAN : TryAddress(works) \/ \E s \in Users : Accept(s, works)
        \/ Return

Spec == Init /\ [][Next]_vars
-----------------------------------------------------------------------------
(* No descriptor is lost and none has two owners that would close it       *)
(* twice, through failed attempts, moves and results that replace other    *)
(* sockets (network.cpp:205, 292); and a user's socket that is valid is    *)
(* connected.                                                              *)
Owned ==
    /\ \A f \in Fds : state[f] # "closed" => \E s \in Sockets : owns[s] = f
    /\ \A s, t \in Sockets : owns[s] = owns[t] /\ s # t => owns[s] = Bad
    /\ \A s \in Sockets : owns[s] # Bad => state[owns[s]] # "closed"
    /\ \A s \in Users : owns[s] # Bad => state[owns[s]] = "connected"

TypeOK == /\ owns \in [Sockets -> Fds \cup {Bad}]
          /\ state \in [Fds -> {"closed", "new", "listening", "connected"}]
          /\ attempt \in [for : {"nobody", Server, Result}, left : Nat,
                          return : Users \cup {Server, "nobody"}]

(* ClientConnect's own Socket is empty outside ClientConnect, which        *)
(* returns to a user.                                                      *)
Attempting == /\ Idle <=> attempt.for = "nobody"
              /\ attempt.for = Result => attempt.return \in Users
              /\ attempt.for # Result => owns[Result] = Bad

IInv == TypeOK /\ Owned /\ Attempting
=============================================================================
