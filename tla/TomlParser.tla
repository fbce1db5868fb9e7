----------------------------- MODULE TomlParser -----------------------------
(***************************************************************************)
(* The recursive descent parser of toml/parser.h with the rules of          *)
(* toml/toml.c.  A rule is a sequence of alternatives, an alternative a     *)
(* sequence of symbols.  The first alternative that matches is taken and    *)
(* never given up, and a symbol takes as many tokens as its rule gives it.  *)
(***************************************************************************)
EXTENDS TomlLexer, Integers, FiniteSetsExt

-----------------------------------------------------------------------------
(* Values and entries.                                                      *)

Value(type, str, num) == [type |-> type, str |-> str, num |-> num]

(* The value of an entry that declares a table.                             *)
NoValue == Value("none", <<>>, 0)

ASSUME DigitsAssumption == Digits = {ToString(n) : n \in 0 .. 9}

DigitValue(c) == CHOOSE n \in 0 .. 9 : ToString(n) = c

Decimal(digits) ==
    LET upto[n \in 0 .. Len(digits)] ==
            IF n = 0 THEN 0 ELSE 10 * upto[n - 1] + DigitValue(digits[n])
    IN  upto[Len(digits)]

(* What atoll and sscanf make of a sign and the digits behind it.           *)
Number(text) ==
    LET signed == text # <<>> /\ Head(text) \in {"+", "-"}
        rest == IF signed THEN Tail(text) ELSE text
        n == SelectInSeq(rest, LAMBDA c : c \notin Digits)
        digits == IF n = 0 THEN rest ELSE SubSeq(rest, 1, n - 1)
    IN  [any |-> digits # <<>>,
         num |-> IF signed /\ Head(text) = "-" THEN - Decimal(digits)
                 ELSE Decimal(digits)]

Unquoted(tok) == SubSeq(tok.text, 2, Len(tok.text) - 1)

TokenName(tok) == IF tok.kind = "string" THEN Unquoted(tok) ELSE tok.text

TokenValue(tok) ==
    CASE tok.kind = "string" -> Value("string", Unquoted(tok), 0)
      [] tok.kind = "int" ->
           Value("int", <<>>,
                 Number(SelectSeq(tok.text, LAMBDA c : c # "us")).num)
      [] OTHER -> Value("bool", <<>>, IF tok.kind = "true" THEN 1 ELSE 0)

Entry(key, value) == [key |-> key, value |-> value]

-----------------------------------------------------------------------------
(* The rules.                                                               *)

T(kind) == [term |-> TRUE, name |-> kind]
N(rule) == [term |-> FALSE, name |-> rule]
Sp == N("space_opt")
Newlines == <<Sp, T("newline"), N("newline_list_opt"), Sp>>

Grammar ==
    [space_opt |-> << <<T("space")>>, <<>> >>,
     bool |-> << <<T("false")>>, <<T("true")>> >>,
     string |-> << <<T("string")>> >>,
     int |-> << <<T("int")>> >>,
     value |-> << <<N("bool")>>, <<N("string")>>, <<N("int")>> >>,
     id |-> << <<T("id")>>, <<T("string")>> >>,
     key_tail |-> << <<Sp, T("dot"), Sp, N("id"), N("key_tail")>>, <<>> >>,
     key |-> << <<N("id"), N("key_tail")>> >>,
     entry |-> << <<Sp, N("key"), Sp, T("eq"), Sp, N("value"), Sp>>,
                  <<Sp, T("lbrack"), Sp, N("key"), Sp, T("rbrack"), Sp>>,
                  <<Sp, T("lbrack"), Sp, T("rbrack"), Sp>> >>,
     newline_list_opt |-> <<Newlines, <<>> >>,
     newline_list |-> <<Newlines>>,
     separator |-> << <<N("newline_list_opt"), T("semicolon"),
                        N("newline_list_opt")>>,
                      <<N("newline_list")>> >>,
     entry_list_tail |-> << <<N("separator"), N("entry"),
                              N("entry_list_tail")>>, <<>> >>,
     entry_list |-> << <<N("newline_list_opt"), N("entry"),
                         N("entry_list_tail")>> >>,
     parse_unit |-> << <<N("entry_list"), N("newline_list_opt")>> >>]

(* The node that the a-th alternative of a rule makes of its children, the  *)
(* nodes of its rules.  Nodes of no use are empty.                          *)
Node(rule, a, children, tok) ==
    CASE rule \in {"bool", "string", "int"} -> TokenValue(tok)
      [] rule = "value" -> children[1]
      [] rule = "id" -> TokenName(tok)
      [] rule = "key_tail" /\ a = 1 -> <<children[3]>> \o children[4]
      [] rule = "key" -> <<children[1]>> \o children[2]
      [] rule = "entry" /\ a = 1 -> Entry(children[2], children[5])
      [] rule = "entry" /\ a = 2 -> Entry(children[3], NoValue)
      [] rule = "entry" /\ a = 3 -> Entry(<<>>, NoValue)
      [] rule = "entry_list_tail" /\ a = 1 -> <<children[2]>> \o children[3]
      [] rule = "entry_list" -> <<children[2]>> \o children[3]
      [] rule = "parse_unit" -> children[1]
      [] OTHER -> <<>>

(* A match has the number of tokens it takes, and its node.                 *)
Match(n, node) == [ok |-> TRUE, n |-> n, node |-> node]
NoMatch == [ok |-> FALSE, n |-> 0, node |-> <<>>]

-----------------------------------------------------------------------------
(* The matcher.  cur counts the tokens in front of a match, parsers is what *)
(* the parser of each rule returns at each position.                        *)

(* The symbols of an alternative, with the nodes of the rules among them.   *)
match_rule(symbols, list, cur, parsers) ==
    LET Further(m, s) ==
            LET at == cur + m.n
            IN  IF s.term
                THEN IF at < Len(list) /\ list[at + 1].kind = s.name
                     THEN Match(m.n + 1, m.node) ELSE NoMatch
                ELSE LET r == parsers[s.name][at]
                     IN  IF r.ok THEN Match(m.n + r.n, Append(m.node, r.node))
                         ELSE NoMatch
        matched[i \in 0 .. Len(symbols)] ==
            IF i = 0 THEN Match(0, <<>>)
            ELSE LET m == matched[i - 1]
                 IN  IF m.ok THEN Further(m, symbols[i]) ELSE NoMatch
    IN  matched[Len(symbols)]

(* The first alternative of a rule that matches.                            *)
ParseRule(rule, list, cur, parsers) ==
    LET tok == IF cur < Len(list) THEN list[cur + 1] ELSE [kind |-> "none"]
        tried[a \in 0 .. Len(Grammar[rule])] ==
            IF a = 0 THEN NoMatch
            ELSE LET before == tried[a - 1]
                     m == match_rule(Grammar[rule][a], list, cur, parsers)
                 IN  IF before.ok THEN before
                     ELSE IF m.ok THEN Match(m.n, Node(rule, a, m.node, tok))
                     ELSE NoMatch
    IN  tried[Len(Grammar[rule])]

(* A rule that calls itself has taken a token before: the calls nest no     *)
(* deeper than this.                                                        *)
Depth(list) == Len(list) + 8

Parser(rule, list) ==
    LET parsers[d \in 0 .. Depth(list)] ==
            [r \in DOMAIN Grammar |-> [cur \in Nat |->
                IF d = 0 THEN NoMatch ELSE ParseRule(r, list, cur, parsers[d - 1])]]
    IN  parsers[Depth(list)][rule][0]

(* Faulty variant: what is left behind the last entry is not looked at.     *)
FullyAnything(res, list) == res.ok

Fully(res, list) == res.ok /\ res.n = Len(list)

(* The entries, or none when the tokens are not fully parsed.               *)
toml_parse(list) ==
    LET res == Parser("parse_unit", list)
    IN  IF Fully(res, list) THEN res.node ELSE <<>>

-----------------------------------------------------------------------------
(* What the parser is made for, without the rules: blocks of tokens, each   *)
(* an entry, with line breaks between them and one semicolon at most.       *)

IsSeparator(tok) == tok.kind \in {"newline", "semicolon"}

IsKey(b) ==
    /\ Len(b) % 2 = 1
    /\ \A n \in 1 .. Len(b) :
          IF n % 2 = 1 THEN b[n].kind \in {"id", "string"} ELSE b[n].kind = "dot"

(* The entry a block is, in a set, which is empty when it is none.          *)
EntryOf(b) ==
    LET Names(k) == [n \in 1 .. (Len(k) + 1) \div 2 |-> TokenName(k[2 * n - 1])]
        Block(key, value) ==
            IF \/ IsKey(key)
               \/ key = <<>> /\ value = NoValue
            THEN {Entry(Names(key), value)} ELSE {}
        last == b[Len(b)]
    IN  IF Len(b) < 2 THEN {}
        ELSE IF b[1].kind = "lbrack" /\ last.kind = "rbrack"
        THEN Block(SubSeq(b, 2, Len(b) - 1), NoValue)
        ELSE IF /\ b[Len(b) - 1].kind = "eq"
                /\ last.kind \in {"string", "int", "true", "false"}
        THEN Block(SubSeq(b, 1, Len(b) - 2), TokenValue(last))
        ELSE {}

(* A key is given a float or an array.                                      *)
AssignsUnsupported(list) ==
    LET s == SelectSeq(list, LAMBDA tok : tok.kind # "space")
    IN  \E i \in 2 .. Len(s) :
           s[i - 1].kind = "eq" /\ s[i].kind \in {"float", "lbrack"}

(* The entries that tokens are, in a set, which is empty when they are none.*)
Meaning(list) ==
    LET s == SelectSeq(list, LAMBDA tok : tok.kind # "space")
        inner == {i \in 1 .. Len(s) : s[i].kind \notin {"newline", "semicolon"}}
        inside == SelectSeq([i \in DOMAIN s |-> i], LAMBDA i : i \in inner)
        starts == SelectSeq(inside, LAMBDA i : i - 1 \notin inner)
        ends == SelectSeq(inside, LAMBDA i : i + 1 \notin inner)
        block == [n \in DOMAIN starts |-> EntryOf(SubSeq(s, starts[n], ends[n]))]
        Semicolons(from, to) ==
            Cardinality({i \in from .. to : s[i].kind = "semicolon"})
    IN  IF /\ starts # <<>>
           /\ \A n \in DOMAIN block : block[n] # {}
           /\ Semicolons(1, Head(starts)) = 0
           /\ Semicolons(Last(ends), Len(s)) = 0
           /\ \A n \in 2 .. Len(starts) : Semicolons(ends[n - 1], starts[n]) <= 1
        THEN {[n \in DOMAIN block |-> CHOOSE e \in block[n] : TRUE]}
        ELSE {}
=============================================================================
