----------------------------- MODULE TomlLexer -----------------------------
(***************************************************************************)
(* The lexer of toml/toml.c and toml/lexer.c.  A text is a sequence of      *)
(* characters: a letter, which stands for any run of letters, a digit, or   *)
(* one of the marks below, where dq, sq and bs are the two quotes and the   *)
(* backslash, us the underscore, nl either line break, sp either blank, and *)
(* any a character that the table does not name.                            *)
(***************************************************************************)
EXTENDS Naturals, Sequences, SequencesExt

CONSTANTS
    Letters,  \* among them f, alse, t and rue
    Digits

Marks == {"-", "+", "us", ".", "=", "[", "]", ";", "#",
          "nl", "sp", "dq", "sq", "bs", "any", "nul"}

Chars == Letters \cup Digits \cup Marks

ASSUME NoMarkIsALetter ==
    /\ {"f", "alse", "t", "rue"} \subseteq Letters
    /\ Letters \cap (Digits \cup Marks) = {} /\ Digits \cap Marks = {}

(* A transition: the characters it takes, the state behind it, the token    *)
(* that ends there, whether the character is looked at again.               *)
Rule(on, next, token, unwind, err) ==
    [on |-> on, next |-> next, token |-> token, unwind |-> unwind, err |-> err]

Go(on, next) == Rule(on, next, "none", FALSE, FALSE)
Peek(on, next) == Rule(on, next, "none", TRUE, FALSE)
Emit(on, token) == Rule(on, "init", token, FALSE, FALSE)
Ends(token) == Rule(Chars, "init", token, TRUE, FALSE)
Fails(on) == Rule(on, "init", "none", FALSE, TRUE)

(* The table of toml_lexer.                                                 *)
Table ==
    [init |-> <<Go(Letters \cup {"us"}, "id"),
                Go(Digits \cup {"-", "+"}, "int"),
                Emit({"["}, "lbrack"), Emit({"]"}, "rbrack"), Emit({"="}, "eq"),
                Emit({"."}, "dot"), Emit({";"}, "semicolon"),
                Go({"#"}, "comment"),
                Peek({"nl"}, "newline"), Peek({"sp"}, "space"),
                Go({"dq"}, "double"), Go({"sq"}, "single"),
                Go({"nul"}, "init")>>,
     id |-> <<Go(Letters \cup Digits \cup {"us", "-"}, "id"), Ends("id")>>,
     space |-> <<Go({"sp"}, "space"), Ends("space")>>,
     newline |-> <<Go({"nl"}, "newline"), Ends("newline")>>,
     double |-> <<Emit({"dq"}, "string"), Go({"bs"}, "double_escape"),
                  Fails({"nul"}), Go(Chars, "double")>>,
     double_escape |-> <<Go(Chars, "double")>>,
     single |-> <<Emit({"sq"}, "string"), Go({"bs"}, "single_escape"),
                  Fails({"nul"}), Go(Chars, "single")>>,
     single_escape |-> <<Go(Chars, "single")>>,
     int |-> <<Go(Digits \cup {"us"}, "int"), Go({"."}, "float"), Ends("int")>>,
     float |-> <<Go(Digits \cup {"us"}, "float"), Fails({"."}), Ends("float")>>,
     comment |-> <<Rule({"nl"}, "init", "comment", TRUE, FALSE),
                   Go(Chars, "comment")>>]

-----------------------------------------------------------------------------
(* One lexing of a text: the state, the position of the next character, the *)
(* start of the token it belongs to, and the tokens so far.                 *)

NewLexing == [state |-> "init", i |-> 0, j |-> 0, tokens |-> <<>>, failed |-> FALSE]

(* The last character looked at is the nul behind the text.                 *)
CharAt(src, i) == IF i < Len(src) THEN src[i + 1] ELSE "nul"
LexDone(src, l) == l.failed \/ l.i = Len(src) + 1

(* Faulty variant: a token never has the character that ends it.            *)
TokenEndCuts(l, r) == l.i

TokenEnd(l, r) == IF r.unwind THEN l.i ELSE l.i + 1

(* Once round the loop of lexer(): the first transition that takes the      *)
(* character, or an error.                                                  *)
LexStep(src, l) ==
    LET rules == Table[l.state]
        n == SelectInSeq(rules, LAMBDA r : CharAt(src, l.i) \in r.on)
        r == rules[n]
        end == TokenEnd(l, r)
    IN  IF n = 0 \/ r.err THEN [l EXCEPT !.failed = TRUE]
        ELSE IF r.token = "none"
        THEN [l EXCEPT !.state = r.next, !.i = IF r.unwind THEN @ ELSE @ + 1]
        ELSE [l EXCEPT !.state = r.next, !.i = IF r.unwind THEN @ ELSE @ + 1,
                       !.j = end,
                       !.tokens = Append(@, [kind |-> r.token,
                                             text |-> SubSeq(src, l.j + 1, end)])]

(* _toml_keyword: strncmp compares as many characters as the id has.        *)
Keyword(tok) ==
    CASE tok.kind = "id" /\ IsPrefix(tok.text, <<"f", "alse">>) -> "false"
      [] tok.kind = "id" /\ IsPrefix(tok.text, <<"t", "rue">>) -> "true"
      [] OTHER -> tok.kind

(* What toml_lexer makes of the tokens of lexer(): the loop that leaves out  *)
(* the comments.                                                            *)
Tokens(l) ==
    LET kept[n \in 0 .. Len(l.tokens)] ==
            IF n = 0 THEN <<>>
            ELSE LET tok == [l.tokens[n] EXCEPT !.kind = Keyword(l.tokens[n])]
                 IN  IF tok.kind = "comment" THEN kept[n - 1]
                     ELSE Append(kept[n - 1], tok)
    IN  kept[Len(l.tokens)]

-----------------------------------------------------------------------------
(* What the tokens should be.                                               *)

(* The texts a token of each kind may have.                                 *)
Word(text, first, others) ==
    /\ text # <<>> /\ Head(text) \in first
    /\ \A n \in 2 .. Len(text) : text[n] \in others

(* A string ends at the first quote that is not escaped.                    *)
Quoted(text, quote) ==
    /\ Len(text) >= 2 /\ Head(text) = quote /\ Last(text) = quote
    /\ \E escaped \in SUBSET (2 .. Len(text) - 1) :
          \A n \in 2 .. Len(text) :
             /\ n \in escaped <=> text[n - 1] = "bs" /\ n - 1 \notin escaped
             /\ text[n] = quote => n \in escaped \/ n = Len(text)

Lexeme(tok) ==
    LET text == tok.text
        sign == Digits \cup {"+", "-"}
        points == {n \in 1 .. Len(text) : text[n] = "."}
    IN  CASE tok.kind = "id" ->
               Word(text, Letters \cup {"us"}, Letters \cup Digits \cup {"us", "-"})
          [] tok.kind = "int" -> Word(text, sign, Digits \cup {"us"})
          [] tok.kind = "float" -> Word(text, sign, Digits \cup {"us", "."})
                                   /\ \E n \in points : points = {n}
          [] tok.kind = "string" -> Quoted(text, "dq") \/ Quoted(text, "sq")
          [] tok.kind = "space" -> Word(text, {"sp"}, {"sp"})
          [] tok.kind = "newline" -> Word(text, {"nl"}, {"nl"})
          [] tok.kind = "comment" -> Word(text, {"#"}, Chars \ {"nl"})
          [] OTHER -> text \in {<<"[">>, <<"]">>, <<"=">>, <<".">>, <<";">>}

(* What the lexer may leave without a token at the end of a text it accepts.*)
Ignorable(text) ==
    \/ text = <<>>
    \/ Word(text, {"#"}, Chars \ {"nl"})
    \/ Head(text) \in {"dq", "sq"} /\ Last(text) = "bs"
=============================================================================
