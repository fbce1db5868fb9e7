------------------------------- MODULE VHook -------------------------------
(***************************************************************************)
(* vhook of app/vhook: a launcher that preloads a library into a program,   *)
(* and the library's connect, which takes the place of connect in every     *)
(* thread of that program and leads its IPv4 streams through a SOCKS 5      *)
(* proxy.  The library's own connection to the proxy is made by the same    *)
(* connect, so a flag shared by all threads says when to let it pass.       *)
(*                                                                          *)
(* A thread has a stack of calls of connect.  A socket is the route of its  *)
(* connection, the hosts it goes through, the last of which it reaches.     *)
(***************************************************************************)
EXTENDS Naturals, Sequences, SequencesExt

CONSTANTS
    Threads,
    Hosts,     \* what the program connects to, the proxy perhaps among them
    Proxy,     \* target_proxy
    MaxCalls   \* bound: calls of connect that each thread makes

ASSUME SomeCalls == MaxCalls \in Nat

VARIABLES
    phase,     \* "launch", "init", "hooked", "unhooked" or "exit"
    proxy_on,  \* the shared flag
    stack,     \* of each thread
    calls      \* how many calls the program has made in each thread

vars == <<phase, proxy_on, stack, calls>>

(* What a call can be given: an IPv4 address and a stream socket, blocking  *)
(* or not, another address or socket, or a descriptor that is no socket.    *)
Descriptors == {"stream", "nonblocking", "other", "none"}

(* A call: where it is, the host and the descriptor it is given, whether    *)
(* the socket blocks, its route, and the route of the socket to the proxy.  *)
Call(to, fd) ==
    [at |-> "enter", to |-> to, fd |-> fd, blocks |-> fd # "nonblocking",
     route |-> <<>>, tunnel |-> <<>>, ok |-> FALSE]

Locations == {"enter", "direct", "off", "dial", "dialling", "greet", "refuse", "on",
              "splice", "back"}

Calls ==
    LET Route == Seq(Hosts \cup {Proxy})
    IN  [at : Locations, to : Hosts \cup {Proxy}, fd : Descriptors, blocks : BOOLEAN,
         route : Route, tunnel : Route, ok : BOOLEAN]

(* Where a call has the flag off.                                           *)
Section == {"dial", "dialling", "greet", "refuse", "on"}

Top(t) == stack[t][Len(stack[t])]

At(t, location) == stack[t] # <<>> /\ Top(t).at = location

(* The innermost call of t becomes c.                                       *)
Now(t, c) == stack' = [stack EXCEPT ![t] = Front(@) \o <<c>>]

To(t, location) == Now(t, [Top(t) EXCEPT !.at = location])

(* The call of t is over, with its result and the route of its socket.      *)
Return(t, c) == Now(t, [c EXCEPT !.at = "back"])

-----------------------------------------------------------------------------

Init ==
    /\ phase = "launch" /\ proxy_on = TRUE
    /\ stack = [t \in Threads |-> <<>>]
    /\ calls = [t \in Threads |-> 0]

Outside == UNCHANGED <<proxy_on, stack, calls>>
Inside == UNCHANGED <<phase, calls>>

(* vhook started without enough arguments, or with a program there is not.  *)
Usage == phase = "launch" /\ phase' = "exit" /\ Outside

(* The library is looked for beside argv[0]; without a slash in argv[0] in  *)
(* the root directory, where the loader does not find it and goes on.       *)
Exec ==
    /\ phase = "launch"
    /\ \E slash \in BOOLEAN : phase' = IF slash THEN "init" ELSE "unhooked"
    /\ Outside

(* The constructor of the library: target_id_parse may refuse the proxy.    *)
InitHook ==
    /\ phase = "init" /\ phase' \in {"hooked", "exit"}
    /\ Outside

(* The program calls connect.                                               *)
Connect(t) ==
    /\ phase \in {"hooked", "unhooked"}
    /\ stack[t] = <<>> /\ calls[t] < MaxCalls
    /\ \E to \in Hosts, fd \in Descriptors :
          stack' = [stack EXCEPT ![t] = <<Call(to, fd)>>]
    /\ calls' = [calls EXCEPT ![t] = @ + 1]
    /\ UNCHANGED <<phase, proxy_on>>

(* Whether it is an IPv4 stream: for what is no socket getsockopt leaves    *)
(* the type unset.                                                          *)
Streams(c) ==
    IF c.fd = "none" THEN BOOLEAN ELSE {c.fd \in {"stream", "nonblocking"}}

(* The conditions for leaving a call alone.                                 *)
Enter(t) ==
    /\ At(t, "enter")
    /\ \E stream \in Streams(Top(t)) :
          To(t, IF phase = "hooked" /\ proxy_on /\ stream THEN "off" ELSE "direct")
    /\ UNCHANGED proxy_on /\ Inside

(* libc's connect.                                                          *)
Direct(t) ==
    /\ At(t, "direct")
    /\ \/ /\ Top(t).fd # "none"
          /\ Return(t, [Top(t) EXCEPT !.route = <<Top(t).to>>, !.ok = TRUE])
       \/ Return(t, Top(t))
    /\ UNCHANGED proxy_on /\ Inside

SwitchOff(t) ==
    /\ At(t, "off") /\ proxy_on' = FALSE
    /\ To(t, "dial") /\ Inside

(* Faulty variant: the host itself is dialled, and then asked for itself.   *)
DialsHost(c) == c.to

Dials(c) == Proxy

(* The library connects to the proxy, by a call of connect in this one; or  *)
(* the proxy's name is not resolved.                                        *)
Dial(t) ==
    /\ At(t, "dial")
    /\ \/ stack' = [stack EXCEPT ![t] =
                       Front(@) \o <<[Top(t) EXCEPT !.at = "dialling"],
                                     Call(Dials(Top(t)), "stream")>>]
       \/ To(t, "refuse")
    /\ UNCHANGED proxy_on /\ Inside

(* A call of the library returns to the one it was made in.                 *)
Dialled(t) ==
    /\ At(t, "back") /\ Len(stack[t]) > 1
    /\ LET inner == Top(t)
           rest == Front(stack[t])
           outer == [Last(rest) EXCEPT !.at = IF inner.ok THEN "greet" ELSE "refuse",
                                       !.tunnel = inner.route]
       IN  stack' = [stack EXCEPT ![t] = Front(rest) \o <<outer>>]
    /\ UNCHANGED proxy_on /\ Inside

(* Whom the SOCKS 5 handshake asks for.                                     *)
Asked(c) == c.to

(* The handshake, which the proxy may refuse.                               *)
Greet(t) ==
    /\ At(t, "greet")
    /\ \/ Now(t, [Top(t) EXCEPT !.at = "on", !.tunnel = Append(@, Asked(Top(t)))])
       \/ To(t, "refuse")
    /\ UNCHANGED proxy_on /\ Inside

(* Faulty variant: a failed call leaves the flag off.                       *)
RefuseLeavesOff(t) ==
    /\ At(t, "refuse") /\ UNCHANGED proxy_on
    /\ Return(t, Top(t)) /\ Inside

(* Faulty variant: the proxy is dialled until it can be reached.            *)
RefuseRetries(t) ==
    /\ At(t, "refuse") /\ UNCHANGED proxy_on
    /\ To(t, "dial") /\ Inside

(* The dial failed: the flag is put back and the socket closed and freed.   *)
Refuse(t) ==
    /\ At(t, "refuse") /\ proxy_on' = TRUE
    /\ Return(t, Top(t)) /\ Inside

SwitchOn(t) ==
    /\ At(t, "on") /\ proxy_on' = TRUE
    /\ To(t, "splice") /\ Inside

(* Faulty variant: the mode of the socket is not looked at.                 *)
BlocksAlways(c) == TRUE

(* The socket to the proxy blocks, unless it is given the mode of the       *)
(* socket it is to replace.                                                 *)
Blocks(c) == c.blocks

(* The socket to the proxy takes the place of the program's socket; its own *)
(* descriptor stays open.  The flags of a descriptor that is not open       *)
(* cannot be had.                                                           *)
Splice(t) ==
    /\ At(t, "splice")
    /\ \/ /\ Top(t).fd # "none"
          /\ Return(t, [Top(t) EXCEPT !.route = Top(t).tunnel, !.ok = TRUE,
                                      !.blocks = Blocks(Top(t))])
       \/ Top(t).fd = "none" /\ Return(t, Top(t))
    /\ UNCHANGED proxy_on /\ Inside

(* connect returns to the program.                                          *)
Returned(t) ==
    /\ At(t, "back") /\ Len(stack[t]) = 1
    /\ stack' = [stack EXCEPT ![t] = <<>>]
    /\ UNCHANGED proxy_on /\ Inside

Hook(t) ==
    \/ Enter(t) \/ Direct(t) \/ SwitchOff(t) \/ Dial(t) \/ Dialled(t) \/ Greet(t)
    \/ Refuse(t) \/ SwitchOn(t) \/ Splice(t) \/ Returned(t)

Next == Usage \/ Exec \/ InitHook \/ \E t \in Threads : Connect(t) \/ Hook(t)

Spec == Init /\ [][Next]_vars

(* Every thread runs, connect of libc returns, and the proxy answers or     *)
(* closes: fd_read reads again when the socket's receive timeout expires,   *)
(* so a proxy that says nothing keeps the caller, with the flag off.        *)
Fairness == \A t \in Threads : WF_vars(Hook(t))

FairSpec == Spec /\ Fairness

-----------------------------------------------------------------------------
(* Properties.                                                              *)

(* Types; a call waits while a call of the library is made in it, and these *)
(* go to the proxy.                                                         *)
TypeOK ==
    /\ phase \in {"launch", "init", "hooked", "unhooked", "exit"}
    /\ proxy_on \in BOOLEAN
    /\ stack \in [Threads -> Seq(Calls)]
    /\ calls \in [Threads -> 0 .. MaxCalls]
    /\ \A t \in Threads : \A n \in 1 .. Len(stack[t]) :
          /\ stack[t][n].at = "dialling" <=> n < Len(stack[t])
          /\ n > 1 => stack[t][n].to = Proxy

InSection(t) == \E n \in DOMAIN stack[t] : stack[t][n].at \in Section

(* The hook is off only while some thread dials the proxy: whatever         *)
(* interleaving and whatever fails, it is on again afterwards.              *)
OffOnlyInSection == ~proxy_on => \E t \in Threads : InSection(t)

(* A call that succeeds leaves its socket connected to the host it was      *)
(* given, straight or through the proxy, and in the mode it had: the        *)
(* program cannot tell the difference.                                      *)
ReachesHost ==
    \A t \in Threads :
        At(t, "back") /\ Top(t).ok =>
            /\ Last(Top(t).route) = Top(t).to
            /\ Top(t).route = <<Top(t).to>> \/ Head(Top(t).route) = Proxy
            /\ Top(t).blocks <=> Top(t).fd # "nonblocking"

(* In a hooked program an IPv4 stream of the program passes by the proxy    *)
(* only while another thread dials it.                                      *)
BypassOnlyInRace ==
    [][\A t \in Threads :
          /\ At(t, "enter") /\ Len(stack[t]) = 1 /\ phase = "hooked"
          /\ Top(t).fd \in {"stream", "nonblocking"}
          /\ At(t, "direct")'
          => \E u \in Threads \ {t} : InSection(u)]_vars

(* Every connect of the program returns.                                    *)
EventuallyReturns == \A t \in Threads : stack[t] # <<>> ~> stack[t] = <<>>
=============================================================================
