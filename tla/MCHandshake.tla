---------------------------- MODULE MCHandshake ----------------------------
(* Small instances of Handshake for TLC: a target of each address type, with *)
(* ports whose bytes differ, and clients that offer authentication methods   *)
(* with and without the one the server takes.                                *)
EXTENDS Handshake

V4 == [type |-> Ipv4, host |-> <<10, 0, 0, 1>>, port |-> 443]
Name == [type |-> Domain, host |-> <<97, 98, 99>>, port |-> 80]
V6 == [type |-> Ipv6, host |-> Copies(254, Wide), port |-> 65535]

(* The text of an IPv4 address in a domain's place. *)
Text4 == [type |-> Domain, host |-> Node(V4), port |-> 8080]

AllTargets == [socks5 |-> {V4, Name, V6, Text4}, vmess |-> {Name, V6, Text4},
               socks4 |-> {V4, Name, Text4}]
OneTarget == [socks5 |-> {}, vmess |-> {Name}, socks4 |-> {}]
OnlyV6 == [socks5 |-> {}, vmess |-> {}, socks4 |-> {V6}]
Address == <<192, 0, 2, 7>>
SomeOffers == {<<0>>, <<2>>, <<2, 0>>}
=============================================================================
