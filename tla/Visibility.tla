------------------------------ MODULE Visibility ------------------------------
(***************************************************************************)
(* Visibility expressions (src/src/secure/visibility.rs): the parser, the  *)
(* normal form, the canonical text that secure keyspaces store in their    *)
(* keys, and evaluation against a set of authorization labels.             *)
(*                                                                         *)
(* A text is a sequence of characters; a character is a number that orders *)
(* as its ASCII code does.  A label is a sequence of label characters.     *)
(***************************************************************************)
EXTENDS ByteOrder

And == 1
Open == 2
Shut == 3
Or == 9
LabelChar == 4..8

IsLabelChar(c) == c \in LabelChar

-----------------------------------------------------------------------------
(* Expr: its kind, its label, its children.                                *)

Public == [kind |-> "public", label |-> <<>>, children |-> <<>>]
Label(l) == [kind |-> "label", label |-> l, children |-> <<>>]
Node(kind, es) == [kind |-> kind, label |-> <<>>, children |-> es]

(* The parser works on what is left of the text; its result is whether it  *)
(* succeeded, the expression, and the rest of the text.                    *)

Failed == [ok |-> FALSE, expr |-> Public, rest |-> <<>>]
Parsed(e, rest) == [ok |-> TRUE, expr |-> e, rest |-> rest]

Next1(text, c) == text # <<>> /\ text[1] = c

\* parse_label: the longest run of label characters.
LabelLength(text) ==
    Max({n \in 0..Len(text) : \A i \in 1..n : IsLabelChar(text[i])})

RECURSIVE ParseOr(_), ParseAnd(_), ParsePrimary(_), MoreOr(_, _), MoreAnd(_, _)

\* remove_only_child, or a node of several children.
Joined(kind, es) ==
    CASE es = <<>> -> Public
      [] Len(es) = 1 -> es[1]
      [] OTHER -> Node(kind, es)

\* A parenthesized expression or a label.
ParsePrimary(text) ==
    IF Next1(text, Open)
    THEN LET inner == ParseOr(Tail(text))
         IN  IF inner.ok /\ Next1(inner.rest, Shut) THEN Parsed(inner.expr, Tail(inner.rest)) ELSE Failed
    ELSE LET n == LabelLength(text)
         IN  IF n = 0 THEN Failed
             ELSE Parsed(Label(SubSeq(text, 1, n)), SubSeq(text, n + 1, Len(text)))

MoreAnd(es, rest) ==
    IF ~Next1(rest, And) THEN Parsed(Joined("and", es), rest)
    ELSE LET p == ParsePrimary(Tail(rest))
         IN  IF p.ok THEN MoreAnd(Append(es, p.expr), p.rest) ELSE Failed

ParseAnd(text) ==
    LET p == ParsePrimary(text) IN IF p.ok THEN MoreAnd(<<p.expr>>, p.rest) ELSE Failed

MoreOr(es, rest) ==
    IF ~Next1(rest, Or) THEN Parsed(Joined("or", es), rest)
    ELSE LET p == ParseAnd(Tail(rest))
         IN  IF p.ok THEN MoreOr(Append(es, p.expr), p.rest) ELSE Failed

ParseOr(text) ==
    LET p == ParseAnd(text) IN IF p.ok THEN MoreOr(<<p.expr>>, p.rest) ELSE Failed

-----------------------------------------------------------------------------
(* Canonical text.                                                         *)

Precedence(e) == CASE e.kind = "or" -> 1 [] e.kind = "and" -> 2 [] OTHER -> 3

\* The children's texts with the operator between them.
WriteJoined(texts, op) ==
    FoldLeft(LAMBDA acc, t : IF acc = <<>> THEN t ELSE acc \o <<op>> \o t, <<>>, texts)

\* Mutant: a disjunction inside a conjunction is written without parentheses.
RECURSIVE WriteFlat(_, _)
WriteFlat(e, parent) ==
    CASE e.kind = "public" -> <<>>
      [] e.kind = "label" -> e.label
      [] OTHER -> WriteJoined([i \in DOMAIN e.children |-> WriteFlat(e.children[i], Precedence(e))],
                              IF e.kind = "and" THEN And ELSE Or)

RECURSIVE WriteCanonical(_, _)
WriteCanonical(e, parent) ==
    LET body == CASE e.kind = "public" -> <<>>
                  [] e.kind = "label" -> e.label
                  [] OTHER -> WriteJoined([i \in DOMAIN e.children |-> WriteCanonical(e.children[i], Precedence(e))],
                                          IF e.kind = "and" THEN And ELSE Or)
    IN  IF Precedence(e) < parent THEN <<Open>> \o body \o <<Shut>> ELSE body

Canonical(e) == WriteCanonical(e, 0)

-----------------------------------------------------------------------------
(* Normal form: children of the same kind are merged into their parent,    *)
(* sorted by canonical text, and kept once.                                *)

\* What a normalized child contributes to a node of the given kind.
Contributed(kind, child) ==
    IF child.kind = kind THEN child.children ELSE IF child = Public THEN <<>> ELSE <<child>>

SortedByText(es) ==
    LET texts == {Canonical(es[i]) : i \in DOMAIN es}
        order == InOrder(texts, LexLess)
    IN  [i \in DOMAIN order |-> es[CHOOSE j \in DOMAIN es : Canonical(es[j]) = order[i]]]

RECURSIVE Normalized(_)
NormalizeChildren(es, kind) ==
    LET normal == [i \in DOMAIN es |-> Normalized(es[i])]
        kept == SortedByText(FlattenSeq([i \in DOMAIN es |-> Contributed(kind, normal[i])]))
    IN  IF kind = "or" /\ Public \in ToSet(normal) THEN Public ELSE Joined(kind, kept)

Normalized(e) == IF e.children = <<>> THEN e ELSE NormalizeChildren(e.children, e.kind)

-----------------------------------------------------------------------------
\* Expr::evaluate.
RECURSIVE Evaluate(_, _)
Evaluate(e, auths) ==
    CASE e.kind = "public" -> TRUE
      [] e.kind = "label" -> e.label \in auths
      [] e.kind = "and" -> \A i \in DOMAIN e.children : Evaluate(e.children[i], auths)
      [] e.kind = "or" -> \E i \in DOMAIN e.children : Evaluate(e.children[i], auths)

\* VisibilityExpr::parse; the result carries the normal form and its canonical text.
Parse(text) ==
    IF text = <<>> THEN [ok |-> TRUE, expr |-> Public, canonical |-> <<>>]
    ELSE LET p == ParseOr(text)
         IN  IF p.ok /\ p.rest = <<>>
             THEN [ok |-> TRUE, expr |-> Normalized(p.expr), canonical |-> Canonical(Normalized(p.expr))]
             ELSE [ok |-> FALSE, expr |-> Public, canonical |-> <<>>]

\* Authorizations::from_labels: every label has to be a valid identifier.
FromLabels(labels) ==
    [ok |-> \A l \in labels : l # <<>> /\ \A i \in DOMAIN l : IsLabelChar(l[i]), labels |-> labels]
=============================================================================
