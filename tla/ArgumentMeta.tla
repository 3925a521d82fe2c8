---------------------------- MODULE ArgumentMeta ----------------------------
(***************************************************************************)
(* The ArgumentMeta grammar of subvt-substrate-client/src/metadata.rs: its *)
(* Display (to_string) and FromStr (parse), as operators.                  *)
(*                                                                         *)
(* A string is a sequence of tokens.  The punctuation the printer writes   *)
(* and the parser looks at ("Vec<", "Option<", ">", "(", ")", ",", " ")    *)
(* are tokens of their own, and a primitive type name is one token, so     *)
(* starts_with, ends_with, slicing, split(',') and trim act on tokens as    *)
(* they act on the characters.  Primitive(name) holds the token sequence   *)
(* the parser was left with, which may be empty or hold several tokens.    *)
(***************************************************************************)
EXTENDS Naturals, Sequences, SequencesExt

CONSTANT Names   \* primitive type names

Punctuation == {"Vec<", "Option<", ">", "(", ")", ",", " "}

ASSUME Names \cap Punctuation = {}

Primitive(name) == [kind |-> "Primitive", name |-> name]
VecOf(m) == [kind |-> "Vec", inner |-> m]
OptionOf(m) == [kind |-> "Option", inner |-> m]
Tuple(args) == [kind |-> "Tuple", args |-> args]

\* ConversionError::InvalidEventArg, whatever its text.
InvalidEventArg == [kind |-> "InvalidEventArg"]

-----------------------------------------------------------------------------
(* impl Display for ArgumentMeta: every tuple element is followed by ", ".  *)
RECURSIVE Display(_)
Display(m) ==
    CASE m.kind = "Primitive" -> m.name
      [] m.kind = "Vec"       -> <<"Vec<">> \o Display(m.inner) \o <<">">>
      [] m.kind = "Option"    -> <<"Option<">> \o Display(m.inner) \o <<">">>
      [] m.kind = "Tuple"     ->
            <<"(">>
            \o FlattenSeq([i \in DOMAIN m.args |-> Display(m.args[i]) \o <<",", " ">>])
            \o <<")">>

(* impl FromStr for ArgumentMeta.                                          *)

\* str::split(','): the pieces between the commas, one more than there are
\* commas (so the empty string gives one empty piece).
SplitComma(s) ==
    LET cut == <<0>> \o SetToSortSeq({i \in DOMAIN s : s[i] = ","}, <)
               \o <<Len(s) + 1>>
    IN  [j \in 1..Len(cut) - 1 |-> SubSeq(s, cut[j] + 1, cut[j + 1] - 1)]

\* Mutant of Trim: the pieces of a tuple are not trimmed.
TrimNone(s) == s

\* str::trim: drop leading and trailing blanks.
Trim(s) ==
    LET kept == {i \in DOMAIN s : s[i] # " "}
    IN  IF kept = {} THEN <<>> ELSE SubSeq(s, Min(kept), Max(kept))

\* The wrapper kinds and the prefix they start with.
Wrappers == [Vec |-> "Vec<", Option |-> "Option<"]

\* Mutant of Closes: Option<..> is expected to end with ')'.
ClosesParen(s, k) == Last(s) = IF k = "Option" THEN ")" ELSE ">"

\* s.ends_with('>') for a wrapper of kind k.
Closes(s, k) == Last(s) = ">"

\* Vec<..> and Option<..> must end with '>' and parse what is between;
\* (..) must end with ')' and parses every comma-separated, trimmed piece;
\* anything else is a primitive.  An error in a part is the error of the
\* whole (the ? operator).
RECURSIVE FromStr(_)
FromStr(s) ==
    LET body   == SubSeq(s, 2, Len(s) - 1)
        pieces == SplitComma(body)
        args   == [i \in DOMAIN pieces |-> FromStr(Trim(pieces[i]))]
        Wrap(k, m) == IF m = InvalidEventArg THEN m
                      ELSE [kind |-> k, inner |-> m]
    IN  CASE s # <<>> /\ \E k \in DOMAIN Wrappers : Head(s) = Wrappers[k] ->
               LET k == CHOOSE k \in DOMAIN Wrappers : Head(s) = Wrappers[k]
               IN  IF Closes(s, k) THEN Wrap(k, FromStr(body))
                   ELSE InvalidEventArg
          [] s # <<>> /\ Head(s) = "(" ->
               IF Last(s) = ")"
               THEN IF InvalidEventArg \in Range(args) THEN InvalidEventArg
                    ELSE Tuple(args)
               ELSE InvalidEventArg
          [] OTHER -> Primitive(s)

-----------------------------------------------------------------------------
(* Reference definitions: the type terms, and how runtime metadata spells *)
(* them (Rust syntax: "Vec<T>", "Option<T>", "(A, B)").                    *)

\* Type terms of nesting depth at most d over Names, with pairs as tuples.
RECURSIVE TypesUpTo(_)
TypesUpTo(d) ==
    IF d = 0 THEN {Primitive(<<n>>) : n \in Names}
    ELSE LET T == TypesUpTo(d - 1)
         IN  T \cup {VecOf(m) : m \in T} \cup {OptionOf(m) : m \in T}
               \cup {Tuple(<<a, b>>) : a, b \in T}

RECURSIVE TypeName(_)
TypeName(m) ==
    CASE m.kind = "Primitive" -> m.name
      [] m.kind = "Vec"       -> <<"Vec<">> \o TypeName(m.inner) \o <<">">>
      [] m.kind = "Option"    -> <<"Option<">> \o TypeName(m.inner) \o <<">">>
      [] m.kind = "Tuple"     ->
            <<"(">>
            \o FlattenSeq([i \in DOMAIN m.args |->
                             IF i = 1 THEN TypeName(m.args[i])
                             ELSE <<",", " ">> \o TypeName(m.args[i])])
            \o <<")">>

\* Does a tuple occur anywhere in m?
RECURSIVE HasTuple(_)
HasTuple(m) ==
    CASE m.kind = "Tuple"              -> TRUE
      [] m.kind \in {"Vec", "Option"}  -> HasTuple(m.inner)
      [] OTHER                         -> FALSE

\* Does a tuple occur inside a tuple anywhere in m?
RECURSIVE TupleInTuple(_)
TupleInTuple(m) ==
    CASE m.kind = "Tuple"             -> \E i \in DOMAIN m.args : HasTuple(m.args[i])
      [] m.kind \in {"Vec", "Option"} -> TupleInTuple(m.inner)
      [] OTHER                        -> FALSE

\* Every primitive name occurring in m, at any depth.
RECURSIVE PrimitivesIn(_)
PrimitivesIn(m) ==
    CASE m.kind = "Primitive"         -> {m.name}
      [] m.kind \in {"Vec", "Option"} -> PrimitivesIn(m.inner)
      [] m.kind = "Tuple"             ->
            UNION {PrimitivesIn(m.args[i]) : i \in DOMAIN m.args}

=============================================================================
