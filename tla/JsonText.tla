------------------------------ MODULE JsonText ------------------------------
(***************************************************************************)
(* The JSON that the programs of src/vis-jitter write for one another, and *)
(* the readers of vis_run.cpp and vis_compare.cpp, which both look for     *)
(* keys instead of parsing.                                                *)
(*                                                                         *)
(* A text is a sequence of tokens.  Quotes inside of strings are escaped,  *)
(* so what a reader finds are whole strings (or one that ends in a quote   *)
(* and the key, which is taken for the key); it does not ask whether the   *)
(* string that it found is a key.  A string that is a value has no colon.  *)
(* What a reader returns is a set: of the value read, or empty.            *)
(***************************************************************************)
EXTENDS Naturals, Sequences, SequencesExt

Mark(m)   == [kind |-> "mark",   text |-> m,      n |-> 0]
String(s) == [kind |-> "string", text |-> s,      n |-> 0]
Number(n) == [kind |-> "number", text |-> "none", n |-> n]
Word(b)   == [kind |-> "word",   text |-> IF b THEN "true" ELSE "false", n |-> 0]
Broken    == [kind |-> "broken", text |-> "none", n |-> 0]

Comma        == Mark("comma")
Colon        == Mark("colon")
OpenBrace    == Mark("open_brace")
CloseBrace   == Mark("close_brace")
OpenBracket  == Mark("open_bracket")
CloseBracket == Mark("close_bracket")

(* What may be left of a token at the end of a file that was cut off.      *)
Stumps(t) ==
  CASE t.kind \in {"string", "word"} -> {Broken}
    [] t.kind = "number" -> {Number(t.n \div d) : d \in {10, 100}} \ {Number(0)}
    [] OTHER -> {}

(* What a reader may find in a file to which n tokens of document were     *)
(* written, and perhaps a part of the next.                                *)
OnDisk(document, n) ==
  LET written == SubSeq(document, 1, n) IN
  {written} \cup (IF n < Len(document)
                  THEN {Append(written, t) : t \in Stumps(document[n + 1])}
                  ELSE {})

----------------------------------------------------------------------------
(* Writing *)
Listed(parts) ==
  FlattenSeq([i \in DOMAIN parts |->
                IF i = 1 THEN parts[i] ELSE <<Comma>> \o parts[i]])

Object(fields) == <<OpenBrace>> \o Listed(fields) \o <<CloseBrace>>
Array(items)   == <<OpenBracket>> \o Listed(items) \o <<CloseBracket>>

Field(key, value)  == <<String(key), Colon>> \o value
Text(key, s)       == Field(key, <<String(s)>>)
Flag(key, b)       == Field(key, <<Word(b)>>)
Count(key, n)      == Field(key, <<Number(n)>>)
Numbers(key, s)    == Field(key, Array([i \in DOMAIN s |-> <<Number(s[i])>>]))
Strings(key, s)    == Field(key, Array([i \in DOMAIN s |-> <<String(s[i])>>]))

----------------------------------------------------------------------------
(* Reading *)
First(text, token, from) ==
  LET hits == {p \in from .. Len(text) : text[p] = token}
  IN IF hits = {} THEN {} ELSE {Min(hits)}

(* find_value_start: after the first colon after the first such string.    *)
ValueStart(text, key) ==
  UNION {{c + 1 : c \in First(text, Colon, k + 1)} : k \in First(text, String(key), 1)}

TokenAt(text, p, kind) == {text[q] : q \in {p} \cap {r \in DOMAIN text : text[r].kind = kind}}

BoolField(text, key) ==
  {t.text = "true" : t \in UNION {TokenAt(text, p, "word") : p \in ValueStart(text, key)}}
StringField(text, key) ==
  {t.text : t \in UNION {TokenAt(text, p, "string") : p \in ValueStart(text, key)}}
NumberField(text, key) ==
  {t.n : t \in UNION {TokenAt(text, p, "number") : p \in ValueStart(text, key)}}

(* The items of an array that is closed; a comma may follow the last. *)
ItemsAt(text, p, kind) ==
  {{text[i] : i \in {j \in p + 1 .. q - 1 : text[j].kind = kind}} :
     q \in {e \in First(text, CloseBracket, p + 1) :
              /\ text[p] = OpenBracket
              /\ \A i \in p + 1 .. e - 1 :
                   IF (i - p) % 2 = 1 THEN text[i].kind = kind ELSE text[i] = Comma}}

ArrayField(text, key, kind) ==
  UNION {ItemsAt(text, p, kind) : p \in ValueStart(text, key)}

NumberSetField(text, key) == {{t.n : t \in items} : items \in ArrayField(text, key, "number")}
StringSetField(text, key) == {{t.text : t \in items} : items \in ArrayField(text, key, "string")}

HowMany(text, from, to, token) == Cardinality({p \in from .. to : text[p] = token})

(* find_json_object: from the first brace to the one that closes it. *)
ObjectOf(text, key) ==
  LET Closed(o) == {e \in o .. Len(text) :
                      HowMany(text, o, e, OpenBrace) = HowMany(text, o, e, CloseBrace)}
  IN UNION {{SubSeq(text, o, Min(Closed(o))) :
               o \in {b \in First(text, OpenBrace, p) : Closed(b) # {}}} :
            p \in ValueStart(text, key)}

(* count_occurrences *)
Occurrences(text, pattern) ==
  Cardinality({p \in 1 .. Len(text) + 1 - Len(pattern) :
                 \A i \in DOMAIN pattern : text[p + i - 1] = pattern[i]})
=============================================================================
