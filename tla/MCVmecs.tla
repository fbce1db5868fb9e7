------------------------------ MODULE MCVmecs ------------------------------
(***************************************************************************)
(* Configuration files for TLC.                                             *)
(***************************************************************************)
EXTENDS Vmecs

MCLetters ==
    {"f", "alse", "t", "rue", "a", "b", "inbound", "outbound", "proto", "local",
     "proxy", "port", "pass", "vmess", "socks", "dokodemo", "native", "host", "away"}

MCDigits == {ToString(n) : n \in 0 .. 9}

(* Every other name meets the first one in the last slot and wraps.         *)
MCHash(name) ==
    IF name # <<>> /\ Head(name) \in {"a", "inbound", "proto", "port"} THEN 7 ELSE 6

(* getaddrinfo takes a padded address, which inet_pton does not.            *)
Padded == <<"0", "1", ".", "2", ".", "3", ".", "4">>

MCResolvable == {<<"host">>, Padded}

NoFields == [proto |-> {}, node |-> {}, port |-> {}, pass |-> {}]

Plain(text) ==
    [text |-> text, want |-> [inbound |-> NoFields, outbound |-> NoFields]]

(* All short texts.                                                         *)
Short ==
    SeqOf({"a", "t", "1", ".", "=", "[", "]", ";", "#", "nl", "sp", "dq", "bs", "any"}, 3)

Join(lines, separator) ==
    LET upto[n \in 0 .. Len(lines)] ==
            IF n = 0 THEN <<>>
            ELSE upto[n - 1] \o (IF n = 1 THEN <<>> ELSE separator) \o lines[n]
    IN  upto[Len(lines)]

(* Entries that nest, repeat and obstruct each other.                       *)
Entries ==
    {<<"a", "=", "1">>, <<"b", "=", "dq", "dq">>, <<"a", ".", "b", "=", "t", "rue">>,
     <<"[", "a", "]">>, <<"[", "a", ".", "b", "]">>, <<"[", "]">>}

Nested == {Join(lines, <<"nl">>) : lines \in SeqOf(Entries, 3)}

(* Forms of an entry and of what may stand around it.                       *)
Dressed ==
    {Join(lines, separator) :
        lines \in TupleOf({<<>>, <<"a", "=", "-", "1", "us", "0">>,
                           <<"sp", "[", "sp", "a", "sp", "]", "sp">>,
                           <<"sq", "bs", "sq", "sq", "sp", ".", "sp", "b", "=", "f", "alse">>,
                           <<"b", "=", "1", ".", "0">>, <<"b", "=", "[", "1", "]">>,
                           <<"#", "a">>}, 2),
        separator \in {<<"nl">>, <<";">>, <<"sp", "nl", "sp", "nl", ";", "nl">>,
                       <<";", "nl", ";">>}}

(* Configurations, written with a table for each side or with dotted keys.  *)
Field(name, texts) ==
    {<<name, "sp", "=", "sp", "dq">> \o text \o <<"dq">> : text \in texts}

Lines(side, w) ==
    SetToSeq(Field("proto", w.proto)
             \cup Field(IF side = "inbound" THEN "local" ELSE "proxy", w.node)
             \cup Field("port", w.port) \cup Field("pass", w.pass))

Tables(side, w) == <<<<"[", side, "]">>>> \o Lines(side, w)
Dotted(side, w) == [n \in DOMAIN Lines(side, w) |-> <<side, ".">> \o Lines(side, w)[n]]

Fields(proto, node, port, pass) ==
    [proto |-> proto, node |-> node, port |-> port, pass |-> pass]

Here == <<"1", ".", "2", ".", "3", ".", "4">>

Side ==
    Fields({<<"vmess">>}, {Here}, {<<"8", "0">>}, {<<"a">>})

Sides ==
    {[Side EXCEPT !.proto = p] :
        p \in {{<<"socks">>}, {<<"socks", "4">>}, {<<"socks", "5">>}, {<<"dokodemo">>},
               {<<"native">>}, {<<"vmess">>}, {<<"a">>}, {}}}
    \cup {[Side EXCEPT !.node = {n}] :
             n \in {<<"host">>, <<"away">>, <<"any", "any", "1">>, <<"1", ".", "2">>, Padded}}
    \cup {[Side EXCEPT !.port = {p}] :
             p \in {<<>>, <<"a">>, <<"sp", "7", "a">>, <<"-", "1">>,
                    <<"6", "5", "5", "3", "7">>}}
    \cup {[Side EXCEPT !.node = {}], [Side EXCEPT !.port = {}], [Side EXCEPT !.pass = {}],
          Fields({<<"native">>}, {}, {}, {})}

Configuration(form, in, out) ==
    [text |-> Join(IF form = "tables"
                   THEN Tables("inbound", in) \o Tables("outbound", out)
                   ELSE Dotted("outbound", out) \o Dotted("inbound", in), <<"nl">>),
     want |-> [inbound |-> in, outbound |-> out]]

Configured ==
    {Configuration("tables", side, Side) : side \in Sides}
    \cup {Configuration("dotted", Side, side) : side \in Sides}

(* Eight names in one table, and a ninth of the same or another table.      *)
Eight == [n \in 1 .. 8 |-> <<"a", ToString(n), "=", "1">>]
Full ==
    {Join(Eight \o <<line>>, <<"nl">>) :
        line \in {<<"b", "=", "1">>, <<"a", "8", ".", "b", "=", "1">>,
                  <<"b", ".", "a", "=", "1">>, <<"a", "8", "=", "1">>}}

MCDocuments ==
    {Plain(text) : text \in Short \cup Nested \cup Dressed \cup Full} \cup Configured
=============================================================================
