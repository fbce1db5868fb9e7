------------------------------- MODULE Vmecs -------------------------------
(***************************************************************************)
(* The vmecs program of app/vmecs/main.c from its start to the point where  *)
(* every worker of tcp_relay_epoll serves: the configuration file is read,  *)
(* cut into tokens, parsed, made into objects and looked up, the inbound    *)
(* and the outbound are built, and a listening socket is bound per worker   *)
(* while another program may hold the port.                                 *)
(***************************************************************************)
EXTENDS TomlParser, TomlObjects

CONSTANTS
    Documents,   \* files: a text, and the fields that whoever wrote it meant
    NThread,     \* workers
    Resolvable,  \* the domains that have an IPv4 address of this host
    AnyPort      \* what an int that was never set may hold

VARIABLES
    pc,        \* "open", "lex", "parse", "gen", "load", "serve", "exit",
               \* "crashed" or "aborted"
    doc,       \* the configuration file
    lexing,    \* the state of lexer()
    entries,   \* what toml_parse returned
    done,      \* the entries that are generated
    objs,      \* the objects
    inbound,   \* the inbound and the outbound, in a set, empty for NULL
    outbound,
    servers,   \* the address each worker's server socket is bound to
    taken      \* another program holds the port

vars == <<pc, doc, lexing, entries, done, objs, inbound, outbound, servers, taken>>

ASSUME DocumentsAssumption == \A d \in Documents : d.text \in Seq(Chars \ {"nul"})
ASSUME NThreadAssumption == NThread \in Nat
ASSUME AnyPortAssumption == AnyPort \subseteq Int

-----------------------------------------------------------------------------
(* Inbounds and outbounds.                                                  *)

(* Another build of a protocol name, inbound and outbound: "none" is NULL.  *)
Proto(name, in, out) == [proto |-> name, inbound |-> in, outbound |-> out]

proto_map ==
    {Proto(<<"vmess">>, "vmess", "vmess"), Proto(<<"socks">>, "socks", "none"),
     Proto(<<"socks", "4">>, "socks", "socks4"),
     Proto(<<"socks", "5">>, "socks", "socks5"),
     Proto(<<"dokodemo">>, "dokodemo", "dokodemo"),
     Proto(<<"native">>, "none", "native")}

(* inet_pton: four decimal bytes without leading zeros and dots between, or *)
(* a colon (any).                                                           *)
Kind(node) ==
    LET dots == SelectSeq([n \in DOMAIN node |-> n], LAMBDA n : node[n] = ".")
        ends == <<0>> \o dots \o <<Len(node) + 1>>
        Octet(n) == SubSeq(node, ends[n] + 1, ends[n + 1] - 1)
    IN  IF /\ ToSet(node) \subseteq Digits \cup {"."} /\ Len(dots) = 3
           /\ \A n \in 1 .. 4 : /\ Octet(n) # <<>> /\ Decimal(Octet(n)) < 256
                                /\ Head(Octet(n)) = "0" => Len(Octet(n)) = 1
        THEN "ipv4"
        ELSE IF "any" \in ToSet(node) THEN "ipv6" ELSE "domain"

(* Faulty variant: the port is not cut to 16 bits.                          *)
PortWide(num) == num

Port(num) == num % 65536

(* target_id_parse.  sscanf skips blanks; it returns 0 when no number       *)
(* follows, but EOF when nothing does, and then port was never set.         *)
target_id_parse(node, service) ==
    LET n == SelectInSeq(service, LAMBDA c : c # "sp")
        rest == IF n = 0 THEN <<>> ELSE SubSeq(service, n, Len(service))
        ports == IF rest = <<>> THEN AnyPort
                 ELSE IF Number(rest).any THEN {Number(rest).num} ELSE {}
    IN  {[node |-> node, kind |-> Kind(node), port |-> Port(p)] : p \in ports}

NoTarget == [node |-> <<>>, kind |-> "none", port |-> 0]

(* The string at side.field, in a set, empty when there is none.            *)
config_lookup_string(side, field) ==
    LET id == toml_lookup(objs, <<<<side>>, <<field>>>>)
    IN  {objs.heap[i].value.str :
            i \in {i \in {id} \ {NULL} : objs.heap[i].value.type = "string"}}

(* Faulty variant: the outbound is given the field of the inbound.          *)
NodeFieldCopied(side) == "local"

(* load_inbound_param and load_outbound_param.                              *)
NodeField(side) == IF side = "inbound" THEN "local" ELSE "proxy"

LoadParam(side) ==
    UNION {target_id_parse(node, port) :
              node \in config_lookup_string(side, NodeField(side)),
              port \in config_lookup_string(side, "port")}

(* The builders.                                                            *)
Build(side, kind) ==
    IF kind = "none" THEN {}
    ELSE IF kind = "native"
    THEN {[kind |-> kind, at |-> NoTarget, pass |-> <<>>]}
    ELSE LET passes == IF kind = "vmess" THEN config_lookup_string(side, "pass") ELSE {<<>>}
         IN  {[kind |-> kind, at |-> param[1], pass |-> param[2]] :
                 param \in LoadParam(side) \X passes}

(* load_inbound and load_outbound: what they may return.                    *)
LoadSide(side) ==
    UNION {Build(side, m[side]) :
              m \in {m \in proto_map : m.proto \in config_lookup_string(side, "proto")}}

(* One of them, in a set, or none.                                          *)
OneOf(s) == IF s = {} THEN {{}} ELSE {{x} : x \in s}

-----------------------------------------------------------------------------

Init ==
    /\ pc = "open" /\ doc \in Documents
    /\ lexing = NewLexing /\ entries = <<>> /\ done = 0 /\ objs = NoObjects
    /\ inbound = {} /\ outbound = {} /\ servers = <<>> /\ taken = FALSE

Unloaded == UNCHANGED <<doc, inbound, outbound, servers, taken>>

(* No argument, no such file, or a file that cannot be read.                *)
Unreadable ==
    /\ pc = "open" /\ pc' = "exit"
    /\ UNCHANGED <<lexing, entries, done, objs>> /\ Unloaded

Open ==
    /\ pc = "open" /\ pc' = "lex"
    /\ UNCHANGED <<lexing, entries, done, objs>> /\ Unloaded

Lex ==
    /\ pc = "lex" /\ ~LexDone(doc.text, lexing)
    /\ \E next \in {LexStep(doc.text, lexing)} : lexing' = next
    /\ UNCHANGED <<pc, entries, done, objs>> /\ Unloaded

(* The keywords and the removal of the comments.  lexer() returned NULL for *)
(* a text it rejects, and the list is looked at all the same.               *)
Lexed ==
    /\ pc = "lex" /\ LexDone(doc.text, lexing)
    /\ pc' = IF lexing.failed THEN "crashed" ELSE "parse"
    /\ UNCHANGED <<lexing, entries, done, objs>> /\ Unloaded

Parse ==
    /\ pc = "parse"
    /\ \E parsed \in {toml_parse(Tokens(lexing))} : entries' = parsed
    /\ pc' = IF entries' = <<>> THEN "exit" ELSE "gen"
    /\ objs' = IF entries' = <<>> THEN objs ELSE NewObjects
    /\ UNCHANGED <<lexing, done>> /\ Unloaded

Gen ==
    /\ pc = "gen"
    /\ \E made \in {GenEntry(objs, entries[done + 1])} :
          IF made.aborted
          THEN pc' = "aborted" /\ UNCHANGED <<objs, done>>
          ELSE /\ objs' = made /\ done' = done + 1
               /\ pc' = IF made.failed THEN "exit"
                        ELSE IF done' = Len(entries) THEN "load" ELSE "gen"
    /\ UNCHANGED <<lexing, entries>> /\ Unloaded

(* main from load_inbound to tcp_relay_epoll.                               *)
Load ==
    /\ pc = "load"
    /\ inbound' \in OneOf(LoadSide("inbound"))
    /\ outbound' \in OneOf(LoadSide("outbound"))
    /\ IF inbound' = {} \/ outbound' = {}
       THEN pc' = "exit" /\ objs' = object_free(objs, Root)
       ELSE pc' = "serve" /\ UNCHANGED objs
    /\ UNCHANGED <<doc, lexing, entries, done, servers, taken>>

(* The sockets are of AF_INET: an IPv6 address cannot be bound to them.     *)
Bindable(target) ==
    \/ target.kind = "ipv4"
    \/ target.kind = "domain" /\ target.node \in Resolvable

(* Faulty variant: the server sockets do not share their port.              *)
PortFreeAlone == ~taken /\ servers = <<>>

(* SO_REUSEPORT: the sockets of vmecs do not keep each other from binding.  *)
PortFree == ~taken

(* What the server function of an inbound returns.                          *)
Server(in) == [kind |-> in.kind, at |-> in.at]

(* One round of tcp_relay_epoll.  While the bind fails the server function  *)
(* sleeps and tries again, and the workers before this one already serve.   *)
Serve ==
    \E in \in inbound :
        /\ pc = "serve" /\ Len(servers) < NThread
        /\ Bindable(in.at) /\ PortFree
        /\ servers' = Append(servers, Server(in))
        /\ UNCHANGED <<pc, doc, lexing, entries, done, objs, inbound, outbound, taken>>

(* Another program binds the port, or lets it go.                           *)
OtherProgram ==
    /\ pc = "serve" /\ servers = <<>> /\ taken' = ~taken
    /\ UNCHANGED <<pc, doc, lexing, entries, done, objs, inbound, outbound, servers>>

Steps == Open \/ Lex \/ Lexed \/ Parse \/ Gen \/ Load \/ Serve

Next == Unreadable \/ Steps \/ OtherProgram

Spec == Init /\ [][Next]_vars

(* Some step of the program is enabled: ENABLED Steps.                      *)
CanStep ==
    \/ pc \in {"open", "lex", "parse", "gen", "load"}
    \/ /\ pc = "serve" /\ Len(servers) < NThread /\ PortFree
       /\ \E in \in inbound : Bindable(in.at)

(* The program runs: WF_vars(Steps), spelled out because TLC would parse    *)
(* the file over and over to find out whether Parse is enabled.             *)
Fairness == []<>~CanStep \/ []<><<Steps>>_vars

FairSpec == Spec /\ Fairness

-----------------------------------------------------------------------------
(* Properties.                                                              *)

Ports == 0 .. 65535

(* Each variable has values of its type, and the objects grow one per name. *)
TypeOK ==
    /\ pc \in {"open", "lex", "parse", "gen", "load", "serve", "exit", "crashed", "aborted"}
    /\ lexing.state \in DOMAIN Table /\ lexing.i \in 0 .. Len(doc.text) + 1
    /\ lexing.j \in 0 .. lexing.i
    /\ done \in 0 .. Len(entries) /\ objs.live \subseteq DOMAIN objs.heap
    /\ \A x \in inbound \cup outbound : x.at.port \in Ports
    /\ Len(servers) \in 0 .. NThread /\ taken \in BOOLEAN

(* The tokens tile the text up to the token at hand: together they are its  *)
(* beginning, each is a lexeme of its kind, and what is left of a text that *)
(* is accepted is a comment or a string that its last backslash left open.  *)
Tiles ==
    /\ \A n \in DOMAIN lexing.tokens : Lexeme(lexing.tokens[n])
    /\ FlattenSeq([n \in DOMAIN lexing.tokens |-> lexing.tokens[n].text])
          = SubSeq(doc.text, 1, lexing.j)
    /\ LexDone(doc.text, lexing) /\ ~lexing.failed
          => Ignorable(SubSeq(doc.text, lexing.j + 1, Len(doc.text)))

(* The parser accepts the tokens exactly when they are entries of strings,  *)
(* integers, booleans and tables with line breaks and semicolons between    *)
(* them, and makes these entries of them.  This is less than the sources    *)
(* say: "support types: string, int, float, bool, array" (toml.h:7) and     *)
(* "value : int | float | string | bool" (toml.c:264-268).  The lexer scans *)
(* floats but no rule takes one, and none takes brackets behind an equals   *)
(* sign: a text that gives a key a float or an array is refused as a whole. *)
ParsesMeaning ==
    (pc = "gen" /\ done = 0) \/ (pc = "exit" /\ entries = <<>> /\ lexing # NewLexing)
        => /\ Meaning(Tokens(lexing)) = IF entries = <<>> THEN {} ELSE {entries}
           /\ AssignsUnsupported(Tokens(lexing)) => entries = <<>>

(* The hash tables with what is in them are the dictionary the entries      *)
(* mean, after every entry, for lookups by path; a conflict is always       *)
(* noticed and nothing else is taken for one.  An assertion stops the       *)
(* program when a table that is full would get another name, and only then. *)
Status ==
    CASE pc \in {"open", "lex", "parse"} -> "idle"
      [] pc = "gen" -> "loading"
      [] pc \in {"load", "serve"} -> "loaded"
      [] pc = "exit" /\ entries # <<>> /\ ~objs.failed -> "dropped"
      [] pc = "aborted" -> "full"
      [] OTHER -> "rejected"

Dict == INSTANCE Dictionary WITH
            todo <- IF pc \in {"gen", "aborted"} THEN SubSeq(entries, done + 1, Len(entries)) ELSE <<>>,
            dict <- Contents(objs), here <- EnvPath(objs), status <- Status,
            Capacity <- TABLE_INIT_BUF, NoValue <- NoValue, Table <- TableValue

LoadsDictionary == Dict!Spec

(* The objects form a tree until they are freed, and no object outlives a   *)
(* configuration that is given up.                                          *)
TreeShaped ==
    /\ IsTree(objs)
    /\ pc = "exit" => objs.live = {}

(* The fields of a side are enough to build it.                             *)
Speaks(kind, side, w) ==
    \/ kind = "vmess" /\ w.proto = {<<"vmess">>}
    \/ kind = "socks" /\ side = "inbound" /\ w.proto # {}
       /\ w.proto \subseteq {<<"socks">>, <<"socks", "4">>, <<"socks", "5">>}
    \/ kind = "socks4" /\ side = "outbound" /\ w.proto = {<<"socks", "4">>}
    \/ kind = "socks5" /\ side = "outbound" /\ w.proto = {<<"socks", "5">>}
    \/ kind = "dokodemo" /\ w.proto = {<<"dokodemo">>}
    \/ kind = "native" /\ side = "outbound" /\ w.proto = {<<"native">>}

Kinds == {"vmess", "socks", "socks4", "socks5", "dokodemo", "native"}

Complete(side, w) ==
    \E kind \in Kinds :
        /\ Speaks(kind, side, w)
        /\ kind # "native" =>
              /\ w.node # {}
              /\ \E p \in w.port : p = <<>> \/ Number(p).any
        /\ kind = "vmess" => w.pass # {}

As(side, w, x) ==
    /\ Speaks(x.kind, side, w)
    /\ x.kind # "native" =>
          /\ w.node = {x.at.node}
          /\ \A p \in w.port : Number(p).any => (x.at.port - Number(p).num) % 65536 = 0
    /\ x.kind = "vmess" => w.pass = {x.pass}

(* vmecs serves exactly when both sides of the file are complete, with the  *)
(* protocol, address, port and password the file gives each, whatever form  *)
(* the file has.  An empty port counts as one: it leaves the port unset.    *)
StartsAsConfigured ==
    /\ pc = "serve" =>
          /\ \A x \in inbound : As("inbound", doc.want.inbound, x)
          /\ \A x \in outbound : As("outbound", doc.want.outbound, x)
          /\ \A n \in DOMAIN servers : \E in \in inbound :
                servers[n] = Server(in)
    /\ pc = "exit" /\ Status = "dropped" =>
          \/ ~Complete("inbound", doc.want.inbound)
          \/ ~Complete("outbound", doc.want.outbound)

(* Start-up comes to an end once the port is left alone: the program exits  *)
(* or crashes, or all its workers serve, unless its address is no address   *)
(* of this host, for which it waits for ever.                               *)
Settled ==
    \/ pc \in {"exit", "crashed", "aborted"}
    \/ pc = "serve" /\ Len(servers) = NThread
    \/ \E in \in inbound : ~Bindable(in.at)

EventuallySettled == <>[]~taken => <>Settled
=============================================================================
