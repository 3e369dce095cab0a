------------------------------- MODULE Parser -------------------------------
(***************************************************************************)
(* server/src/parser.rs: the recursive-descent parser of Enforce Script.   *)
(*                                                                         *)
(* A source is the sequence of the kinds of its tokens, from the lexer, the *)
(* last one "eof".  The parser is a record handed from one parse function  *)
(* to the next; its field kids is the list of children the function at     *)
(* hand collects.  The tree keeps every token, trivia and errors included. *)
(* Messages are left out, diagnostics are counted.  A loop in which nothing *)
(* is consumed never ends, or is ended with the process by assert_progress; *)
(* the model then sets stuck and goes on at the end of the file.           *)
(***************************************************************************)
EXTENDS Naturals, Sequences, SequencesExt, FiniteSetsExt

CONSTANTS
    Sources,            \* the token sequences that are parsed
    WellFormed,         \* those that are programs of the language
    Broken,             \* those with an error in a body and a class after it
    Limit               \* MAX_RECURSION_DEPTH

VARIABLES
    tokens,             \* the source
    parsed,             \* the parser after the source, or before it
    before              \* the shape of the tree before a line was broken, or <<>>

-----------------------------------------------------------------------------
(* Token kinds.  "nl" is trivia with a line break in it, "ws" without one. *)

IsTrivia(kind) == kind \in {"ws", "nl"}

TypeHeads == {"void", "int", "float", "bool", "string", "vector", "typename", "auto", "func"}
DeclarationStarts == TypeHeads \union {"id", "const", "ref", "notnull"}
MemberStarts == DeclarationStarts \union
    {"private", "protected", "static", "override", "proto", "native", "external",
     "sealed", "modded", "vanilla"}
SyncStarts == (MemberStarts \ {"id"}) \union {"class", "enum", "typedef", "event", "["}
Modifiers ==
    {"modded", "sealed", "proto", "external", "native", "volatile", "private",
     "protected", "static", "override", "const", "owned", "event"}
LocalFollowers ==
    {"id", "if", "for", "foreach", "while", "do", "switch", "return", "break",
     "continue", "delete", "thread"}

Keywords ==
    ((MemberStarts \union Modifiers \union LocalFollowers) \ {"id"}) \union
    {"class", "enum", "typedef", "else", "case", "default", "new", "extends",
     "true", "false", "null", "this", "super"}
Names == Keywords \union {"id"}

Assignments == {"=", "+=", "-=", "*=", "/=", "%=", "&=", "|=", "^=", "<<=", ">>="}
PrefixOperators == {"+", "-", "!", "~", "++", "--"}
ExpressionStarts == Names \union PrefixOperators \union {"num", "str", "(", "{"}

Levels == <<{"||"}, {"&&"}, {"|"}, {"^"}, {"&"}, {"==", "!="}, {"<", "<=", ">", ">="},
            {"<<", ">>"}, {"+", "-"}, {"*", "/", "%"}>>

\* current_binary_binding_power: left and right power, or <<>>
BindingPower(kind) ==
    IF kind \in Assignments THEN <<2, 1>>
    ELSE LET levels == {n \in DOMAIN Levels : kind \in Levels[n]}
         IN IF levels = {} THEN <<>> ELSE <<2 * Max(levels) + 1, 2 * Max(levels) + 2>>

-----------------------------------------------------------------------------
(* The nesting of brackets, which the scanning loops count.                *)

Flat == [paren |-> 0, bracket |-> 0, angle |-> 0, brace |-> 0]

Less(n, by) == IF n > by THEN n - by ELSE 0

Deeper(d, kind) ==
    CASE kind = "(" -> [d EXCEPT !.paren = @ + 1]
      [] kind = ")" -> [d EXCEPT !.paren = Less(@, 1)]
      [] kind = "[" -> [d EXCEPT !.bracket = @ + 1]
      [] kind = "]" -> [d EXCEPT !.bracket = Less(@, 1)]
      [] kind = "{" -> [d EXCEPT !.brace = @ + 1]
      [] kind = "}" -> [d EXCEPT !.brace = Less(@, 1)]
      [] kind = "<" -> [d EXCEPT !.angle = @ + 1]
      [] kind = ">" -> [d EXCEPT !.angle = Less(@, 1)]
      [] kind = ">>" -> [d EXCEPT !.angle = Less(@, 2)]
      [] OTHER -> d

\* Some loops do not count braces.
NoBraces(d) == [d EXCEPT !.brace = 0]

-----------------------------------------------------------------------------
(* Tokens ahead.                                                           *)

End == Len(tokens)

\* The first position from i that has a property; the last one is "eof".
Significant(i) == Min({j \in i .. End : ~IsTrivia(tokens[j])})
NextOf(i, kinds) == Min({j \in i .. End : tokens[j] \in kinds \union {"eof"}})

At(p) == tokens[p.at]
Peek(p) == tokens[Significant(p.at)]

\* next_significant_kind(1), asked where the current token is a name
PeekSecond(p) == tokens[Significant(p.at + 1)]

\* parse_type_ref_until and parse_foreach_variable: to the first of kinds
\* outside brackets
RECURSIVE UnnestedOf(_, _, _)
UnnestedOf(i, kinds, d) ==
    IF tokens[i] = "eof" \/ (d = Flat /\ tokens[i] \in kinds) THEN i
    ELSE UnnestedOf(i + 1, kinds, NoBraces(Deeper(d, tokens[i])))

\* parse_angle_list: the position of the closing angle, or the end of the file
RECURSIVE ClosingAngle(_, _)
ClosingAngle(i, angle) ==
    LET d == Deeper([Flat EXCEPT !.angle = angle], tokens[i]).angle
    IN IF tokens[i] = "eof" \/ d = 0 THEN i ELSE ClosingAngle(i + 1, d)

\* looks_like_generic_argument_list, with generic_argument_list_can_continue
RECURSIVE LooksGeneric(_, _)
LooksGeneric(i, angle) ==
    /\ tokens[i] \notin {";", "{", "}", "eof"}
    /\ LET d == Deeper([Flat EXCEPT !.angle = angle], tokens[i]).angle
       IN IF tokens[i] \in {">", ">>"} /\ d = 0
          THEN tokens[Significant(i + 1)] \in {".", "(", "["}
          ELSE LooksGeneric(i + 1, d)

RECURSIVE LooksLikeCallable(_, _)
LooksLikeCallable(i, names) ==
    LET kind == tokens[i]
    IN \/ kind = "("
       \/ /\ kind \notin {"(", "=", ";", "{", "[", "]", "}", "eof"}
          /\ ~(names >= 2 /\ kind = "nl" /\ tokens[Significant(i + 1)] \in MemberStarts)
          /\ LooksLikeCallable(i + 1, IF kind \in Names THEN names + 1 ELSE names)

\* looks_like_local_decl_statement_from, and its form for a for header: name
\* and equal are what was seen, before and after a line break next to a name
RECURSIVE LocalDeclFrom(_, _, _, _)
LocalDeclFrom(i, start, header, s) ==
    LET kind == tokens[i]
        top == s.depth = Flat
        equal == s.equal \/ (top /\ kind = "=")
        named == top /\ i > start /\ kind = "id"
        refused ==
            \/ kind \in {"}", "eof"}
            \/ ~s.equal /\ kind \in {".", "?"}
            \/ ~s.equal /\ ~header /\ kind \in {"("} \union (IF s.name THEN {"<"} ELSE {})
            \/ kind \in Assignments /\ (~s.name \/ kind # "=")
            \/ ~equal /\ kind = ":"
            \/ named /\ ~header /\ i < End /\ tokens[Significant(i + 1)] \in {"++", "--"}
        depth == Deeper(s.depth, kind)
    IN IF top /\ IsTrivia(kind) /\ ~header
       THEN LocalDeclFrom(i + 1, start, header,
                [s EXCEPT !.after = @ \/ (s.name /\ kind = "nl"),
                          !.before = @ \/ (~s.name /\ kind = "nl")])
       ELSE IF top /\ s.after /\ kind \in LocalFollowers THEN ~s.before
       ELSE IF top /\ kind \in {";", ")"} THEN s.name
       ELSE IF (top /\ refused) \/ kind = "eof" THEN FALSE
       ELSE LocalDeclFrom(i + 1, start, header,
                [s EXCEPT !.equal = equal,
                          !.name = @ \/ named,
                          !.after = @ /\ ~named,
                          !.depth = IF equal THEN [depth EXCEPT !.angle = s.depth.angle]
                                    ELSE depth])

LooksLikeLocalDecl(i, header) ==
    /\ tokens[i] \in DeclarationStarts
    /\ LocalDeclFrom(i, i, header,
           [name |-> FALSE, equal |-> FALSE, before |-> FALSE, after |-> FALSE,
            depth |-> Flat])

NextLineStartsLocalDecl(p) ==
    LET next == Significant(p.at)
    IN (\E j \in p.at .. next - 1 : tokens[j] = "nl") /\ LooksLikeLocalDecl(next, FALSE)

-----------------------------------------------------------------------------
(* The tree.                                                               *)

Leaf(i) == [kind |-> "token", at |-> i, kids |-> <<>>]
Node(kind, kids) == [kind |-> kind, at |-> 0, kids |-> kids]

\* The kind of the token an element is, or of no token.
TokenOf(e) == IF e.kind = "token" THEN tokens[e.at] ELSE "node"

RECURSIVE Leaves(_)
Leaves(e) ==
    IF e.kind = "token" THEN <<e.at>>
    ELSE FlattenSeq([i \in DOMAIN e.kids |-> Leaves(e.kids[i])])

RECURSIVE Nodes(_)
Nodes(e) ==
    IF e.kind = "token" THEN {}
    ELSE {e.kind} \union UNION {Nodes(e.kids[i]) : i \in DOMAIN e.kids}

\* significant_declarator_tokens_in_elements
RECURSIVE DeclaratorTokens(_)
DeclaratorTokens(e) ==
    IF e.kind = "token"
    THEN IF IsTrivia(tokens[e.at]) \/ tokens[e.at] = ";" THEN <<>> ELSE <<tokens[e.at]>>
    ELSE IF e.kind \in {"AttributeList", "ModifierList"} THEN <<>>
    ELSE FlattenSeq([i \in DOMAIN e.kids |-> DeclaratorTokens(e.kids[i])])

\* Mutant: a name and a name is enough, whatever ends them.
HasTwoNames(kids) ==
    LET found == DeclaratorTokens(Node("Declaration", kids))
    IN Cardinality({i \in DOMAIN found : found[i] \in Names}) >= 2

\* partial_declaration_has_declarator
HasDeclarator(kids) ==
    LET found == DeclaratorTokens(Node("Declaration", kids))
    IN /\ Cardinality({i \in DOMAIN found : found[i] \in Names}) >= 2
       /\ Last(found) \in {"id", "]"}

\* A line break ends the children, after a last one that is no trivia.
AfterLineBreak(kids) ==
    LET solid == {i \in DOMAIN kids : ~IsTrivia(TokenOf(kids[i]))}
    IN /\ solid # {}
       /\ \E i \in Max(solid) + 1 .. Len(kids) : TokenOf(kids[i]) = "nl"

\* The nesting before child i of those given; nodes do not count.
DepthBefore(kids, i) ==
    FoldLeft(LAMBDA d, e : Deeper(d, TokenOf(e)), Flat, SubSeq(kids, 1, i - 1))

\* first_declarator_element, or 0
FirstDeclarator(kids) ==
    LET Among(kinds, from) == {i \in from : TokenOf(kids[i]) \in kinds}
        Ahead(top) == {i \in top : \A j \in Among({",", ";", "="}, top) : i < j}
        Named(ahead) == {i \in Among({"id"}, ahead) :
                           \E j \in Among(TypeHeads \union {"id"}, ahead) : j < i}
        Top == {i \in DOMAIN kids : kids[i].kind = "token" /\ DepthBefore(kids, i) = Flat}
    IN Max({0} \union Named(Ahead(Top)))

\* One step of the loop of structure_declaration.
Place(tail, e) ==
    CASE tail.depth = Flat /\ TokenOf(e) = "," ->
           [tail EXCEPT !.list = @ \o <<Node("Declarator", tail.open), e>>, !.open = <<>>]
      [] tail.depth = Flat /\ TokenOf(e) = ";" -> [tail EXCEPT !.last = Append(@, e)]
      [] OTHER -> [tail EXCEPT !.open = Append(@, e), !.depth = Deeper(@, TokenOf(e))]

TypeRef(kids) == IF kids = <<>> THEN <<>> ELSE <<Node("TypeRef", kids)>>

\* The declarators, and the semicolons after them, from the placed children.
Declarators(tail) ==
    <<Node("DeclaratorList",
           IF tail.open = <<>> THEN tail.list
           ELSE Append(tail.list, Node("Declarator", tail.open)))>>
    \o tail.last

\* What the children are, without a first declarator.
Undeclared(kids) ==
    LET solid == SelectSeq(kids, LAMBDA e : e.kind = "token" /\ ~IsTrivia(TokenOf(e)))
    IN IF solid # <<>> /\ TokenOf(Head(solid)) = "id" THEN TypeRef(kids) ELSE kids

StructuredAt(kids, first) ==
    IF first = 0 THEN Undeclared(kids)
    ELSE TypeRef(SubSeq(kids, 1, first - 1))
         \o Declarators(FoldLeft(Place,
                [list |-> <<>>, open |-> <<>>, last |-> <<>>, depth |-> Flat],
                SubSeq(kids, first, Len(kids))))

StructureDeclaration(kids) == StructuredAt(kids, FirstDeclarator(kids))

VariableAt(kids, first) ==
    IF first = 0 THEN kids
    ELSE TypeRef(SubSeq(kids, 1, first - 1))
         \o <<Node("Declarator", SubSeq(kids, first, Len(kids)))>>

StructureForeachVariable(kids) == VariableAt(kids, FirstDeclarator(kids))

-----------------------------------------------------------------------------
(* The steps every parse function is made of.                              *)

Bump(p) == [p EXCEPT !.at = @ + 1, !.kids = Append(@, Leaf(p.at))]

Take(p, next) ==
    [p EXCEPT !.at = next, !.kids = @ \o [i \in 1 .. next - p.at |-> Leaf(p.at + i - 1)]]

Trivia(p) == Take(p, Significant(p.at))

\* A node: its children are collected from Open on, Close adds it to those of p.
Open(p) == [p EXCEPT !.kids = <<>>]
Close(p, kind, q) == [q EXCEPT !.kids = Append(p.kids, Node(kind, q.kids))]
Wrap(kind, q) == [q EXCEPT !.kids = <<Node(kind, q.kids)>>]

\* error_at_span and error_here, which is silent once the limit was reached
ErrorAtSpan(p) == [p EXCEPT !.errors = @ + 1]
ErrorHere(p) == IF p.recovered THEN p ELSE ErrorAtSpan(p)

Expect(p, kind) == IF At(p) = kind THEN Bump(p) ELSE ErrorHere(p)
BumpIf(p, kind) == IF At(p) = kind THEN Bump(p) ELSE p

\* assert_progress, and the one loop without it
AssertProgress(start, p) ==
    IF p.at > start THEN p ELSE [p EXCEPT !.at = End, !.stuck = TRUE]

\* with_recursion_budget: the tokens swallowed at the limit
Closing(kind) == CASE kind = "(" -> ")" [] kind = "[" -> "]" [] kind = "{" -> "}"

RECURSIVE RecoverTo(_, _, _)
RecoverTo(i, stop, delimiters) ==
    LET kind == tokens[i]
    IN IF kind \in {"eof", ";"} \/ (delimiters = <<>> /\ kind \in stop \union {"}"}) THEN i
       ELSE RecoverTo(i + 1, stop,
                CASE kind \in {"(", "[", "{"} -> Append(delimiters, Closing(kind))
                  [] delimiters # <<>> /\ Last(delimiters) = kind -> Front(delimiters)
                  [] OTHER -> delimiters)

AtLimit(p) == p.depth = Limit

Recover(p, stop) ==
    LET q == Take(Open([ErrorHere(p) EXCEPT !.recovered = TRUE, !.limited = TRUE]),
                  RecoverTo(p.at, stop, <<>>))
    IN Close(p, "Error", q)

Enter(p) == [p EXCEPT !.depth = @ + 1]
Leave(p) == [p EXCEPT !.depth = @ - 1, !.recovered = @ /\ p.depth > 1]

\* The parse functions that nest all pass with_recursion_budget; what they do
\* inside of it is below (ExpressionInner, InitializerInner, ...).
RECURSIVE Budgeted(_, _, _, _)

Expression(p, stop, power) == Budgeted("expression", p, stop, power)
Initializer(p) == Budgeted("initializer", p, {"}"}, 0)
Statement(p) == Budgeted("statement", p, {";", "}"}, 0)
Declaration(p, inClass) == Budgeted(IF inClass THEN "member" ELSE "declaration", p, {"}"}, 0)

-----------------------------------------------------------------------------
(* Expressions.                                                            *)

RECURSIVE ExpressionTail(_, _, _), InitializerItems(_), ArgumentItems(_), AttributeArguments(_)

\* parse_angle_list
AngleList(p) ==
    LET q == Take(Open(p), ClosingAngle(p.at, 0))
    IN Close(p, "GenericArgs", IF At(q) = "eof" THEN ErrorAtSpan(q) ELSE Bump(q))

NameExpression(p) ==
    LET q == Bump(Open(p))
    IN Close(p, "NameExpression",
             IF Peek(q) = "<" /\ LooksGeneric(q.at, 0) THEN AngleList(Trivia(q)) ELSE q)

TypeNameExpression(p) ==
    LET q == Bump(Open(p))
    IN Close(p, "NameExpression", IF Peek(q) = "<" THEN AngleList(Trivia(q)) ELSE q)

\* parse_argument
Argument(p) ==
    IF At(p) \in Names /\ PeekSecond(p) = ":"
    THEN Close(p, "NamedArgument",
               Expression(Bump(Trivia(NameExpression(Open(p)))), {",", ")"}, 0))
    ELSE Expression(p, {",", ")"}, 0)

ArgumentItems(p) ==
    IF At(p) \in {")", "eof"} THEN p
    ELSE IF IsTrivia(At(p)) \/ At(p) = "," THEN ArgumentItems(Bump(p))
    ELSE ArgumentItems(AssertProgress(p.at, Argument(p)))

ArgumentList(p) == Close(p, "ArgumentList", Expect(ArgumentItems(Bump(Open(p))), ")"))

\* parse_attribute_args: its loop has no assert_progress
AttributeArguments(p) ==
    IF At(p) \in {")", "eof"} THEN p
    ELSE IF IsTrivia(At(p)) \/ At(p) = "," THEN AttributeArguments(Bump(p))
    ELSE AttributeArguments(AssertProgress(p.at, Argument(p)))

\* parse_initializer_expression_inner
InitializerInner(p) ==
    Close(p, "Initializer", Expect(InitializerItems(Bump(Open(p))), "}"))

InitializerItems(p) ==
    IF At(p) \in {"}", "eof"} THEN p
    ELSE IF IsTrivia(At(p)) \/ At(p) = "," THEN InitializerItems(Bump(p))
    ELSE IF At(p) = "{" THEN InitializerItems(Initializer(p))
    ELSE InitializerItems(AssertProgress(p.at, Expression(p, {",", "}"}, 0)))

Parenthesized(q, stop) ==
    LET inner == IF Peek(Bump(q)) = ")" THEN Bump(q) ELSE Expression(Bump(q), {")"}, 0)
        closed == Expect(Trivia(inner), ")")
    IN IF Peek(closed) \in ExpressionStarts
       THEN Wrap("CastExpression", Expression(closed, stop, 14))
       ELSE Wrap("ParenthesizedExpression", closed)

New(q) ==
    LET typed == LET r == Trivia(Bump(q))
                 IN IF At(r) \in Names THEN TypeNameExpression(r) ELSE r
    IN Wrap("NewExpression",
            IF Peek(typed) = "(" THEN ArgumentList(Trivia(typed)) ELSE typed)

\* single_or_wrapped_expression
Single(q) == IF Len(q.kids) = 1 THEN q ELSE Wrap("Expression", q)

\* parse_prefix_expression: one element, after p opened its children
Prefix(p, stop) ==
    LET q == Trivia(p)
    IN CASE At(q) \in stop \union {"eof"} -> Wrap("Error", ErrorHere(q))
         [] At(q) = "{" -> Single(Initializer(q))
         [] At(q) = "(" -> Parenthesized(q, stop)
         [] At(q) = "new" -> New(q)
         [] At(q) \in PrefixOperators ->
              Wrap("UnaryExpression", Expression(Bump(q), stop, 14))
         [] At(q) \in Names \ {"new"} -> Single(NameExpression(q))
         [] At(q) \in {"num", "str"} -> Wrap("LiteralExpression", Bump(q))
         [] OTHER -> Wrap("Expression", Bump(q))

Member(q) ==
    LET r == Trivia(Bump(Trivia(q)))
    IN Wrap("MemberAccess", IF At(r) \in Names THEN NameExpression(r) ELSE ErrorHere(r))

Subscript(q) ==
    LET r == Bump(Trivia(q))
    IN Wrap("IndexExpression",
            Expect(Trivia(IF Peek(r) = "]" THEN r ELSE Expression(r, {"]"}, 0)), "]"))

Ternary(q, stop) ==
    LET then == Expression(Bump(Trivia(q)), {":"}, 0)
    IN Wrap("TernaryExpression", Expression(Expect(Trivia(then), ":"), stop, 1))

\* The loop of parse_expression_bp_inner; q holds the expression so far.
ExpressionTail(q, stop, power) ==
    LET next == Peek(q)
        binding == BindingPower(next)
    IN IF next \in stop \union {"eof"} THEN q
       ELSE IF next = "(" THEN
            ExpressionTail(Wrap("CallExpression", ArgumentList(Trivia(q))), stop, power)
       ELSE IF next = "." THEN ExpressionTail(Member(q), stop, power)
       ELSE IF next = "[" THEN ExpressionTail(Subscript(q), stop, power)
       ELSE IF next \in {"++", "--"} THEN
            ExpressionTail(Wrap("PostfixExpression", Bump(Trivia(q))), stop, power)
       ELSE IF next = "?" /\ power <= 1 THEN ExpressionTail(Ternary(q, stop), stop, power)
       ELSE IF next = "?" \/ binding = <<>> \/ binding[1] < power THEN q
       ELSE ExpressionTail(
                Wrap("BinaryExpression", Expression(Bump(Trivia(q)), stop, binding[2])),
                stop, power)

\* parse_expression_bp_inner
ExpressionInner(p, stop, power) ==
    LET q == ExpressionTail(Prefix(Open(p), stop), stop, power)
    IN [q EXCEPT !.kids = p.kids \o @]

-----------------------------------------------------------------------------
(* Statements.                                                             *)

RECURSIVE BlockItems(_), SwitchItems(_), SectionItems(_), Clauses(_),
          LocalDeclUntil(_, _, _), ForExpressions(_, _), ForeachVariables(_)

Block(p) == Close(p, "Block", Expect(BlockItems(Bump(Open(p))), "}"))

BlockItems(p) ==
    IF At(p) \in {"}", "eof"} THEN p
    ELSE BlockItems(AssertProgress(p.at, Statement(p)))

\* parse_parenthesized_expression_node
Header(p, kind) ==
    LET q == Bump(Open(p))
        r == IF Peek(q) = ")" THEN q ELSE Expression(q, {")"}, 0)
    IN Close(p, kind, Expect(Trivia(r), ")"))

Condition(q) == IF At(q) = "(" THEN Header(q, "Condition") ELSE ErrorHere(q)

Body(q) == IF At(q) \in {"}", "eof"} THEN q ELSE Statement(q)

Else(q) ==
    IF At(q) = "else" THEN Close(q, "ElseClause", Body(Bump(Open(q)))) ELSE q

IfStatement(q) == Else(Trivia(Body(Condition(Trivia(Bump(q))))))

WhileStatement(q) == Body(Condition(Trivia(Bump(q))))

DoWhileStatement(q) ==
    LET r == Bump(q)
        body == Trivia(IF At(r) = "eof" THEN r ELSE Statement(r))
    IN IF At(body) = "while"
       THEN BumpIf(Trivia(Condition(Trivia(Bump(body)))), ";")
       ELSE ErrorHere(body)

\* parse_for_expression_list
ForExpressions(q, stop) ==
    IF At(q) \in stop \union {"eof"} THEN q
    ELSE IF IsTrivia(At(q)) \/ At(q) = "," THEN ForExpressions(Bump(q), stop)
    ELSE ForExpressions(AssertProgress(q.at, Expression(q, stop \union {","}, 0)), stop)

\* parse_local_decl_statement_until
LocalDeclUntil(q, stop, depth) ==
    LET ended == /\ depth = Flat /\ q.kids # <<>>
                 /\ At(q) \in LocalFollowers
                 /\ HasDeclarator(q.kids) /\ AfterLineBreak(q.kids)
    IN IF At(q) \in stop \union {"eof"} \/ ended THEN q
       ELSE IF IsTrivia(At(q)) \/ At(q) = "," THEN LocalDeclUntil(Bump(q), stop, depth)
       ELSE IF At(q) = "{" THEN LocalDeclUntil(Initializer(q), stop, depth)
       ELSE IF At(q) = "=" THEN
            IF NextLineStartsLocalDecl(Bump(q)) THEN ErrorAtSpan(Bump(q))
            ELSE LocalDeclUntil(Expression(Bump(q), stop \union {","}, 0), stop, depth)
       ELSE LocalDeclUntil(Bump(q), stop, NoBraces(Deeper(depth, At(q))))

ForInitializer(p) ==
    LET q == Trivia(Open(p))
        d == LocalDeclUntil(Open(q), {";"}, Flat)
    IN Close(p, "ForInitializer",
             IF LooksLikeLocalDecl(q.at, TRUE)
             THEN Close(q, "LocalDecl", [d EXCEPT !.kids = StructureDeclaration(@)])
             ELSE ForExpressions(q, {";", ")"}))

Separator(q, kind) ==
    IF At(q) = kind THEN Bump(q) ELSE IF At(q) \in {")", "eof"} THEN q ELSE ErrorHere(q)

OptionalInitializer(q) == IF Peek(q) \in {";", ")"} THEN q ELSE ForInitializer(q)

ForCondition(q) ==
    IF Peek(q) \in {";", ")"} THEN q
    ELSE Close(q, "ForCondition", Expression(Open(q), {";", ")"}, 0))

ForIncrement(q) ==
    IF Peek(q) = ")" THEN q ELSE Close(q, "ForIncrement", ForExpressions(Open(q), {")"}))

ForHeader(p) ==
    LET first == Separator(Trivia(OptionalInitializer(Bump(Open(p)))), ";")
        second == Separator(Trivia(ForCondition(first)), ";")
    IN Close(p, "ForHeader", Expect(Trivia(ForIncrement(second)), ")"))

ForStatement(q) ==
    LET r == Trivia(Bump(q)) IN Body(IF At(r) = "(" THEN ForHeader(r) ELSE ErrorHere(r))

ForeachVariable(p) ==
    LET q == Take(Open(p), UnnestedOf(p.at, {",", ":", ")"}, Flat))
    IN Close(p, "ForeachVariable", [q EXCEPT !.kids = StructureForeachVariable(@)])

\* parse_foreach_variable_list
ForeachVariables(q) ==
    IF At(q) \in {":", ")", "eof"} THEN q
    ELSE IF IsTrivia(At(q)) \/ At(q) = "," THEN ForeachVariables(Bump(q))
    ELSE ForeachVariables(AssertProgress(q.at, ForeachVariable(q)))

OptionalVariables(q) ==
    IF Peek(q) \in {":", ")"} THEN q
    ELSE Close(q, "ForeachVariables", ForeachVariables(Open(q)))

ForeachIterable(q) ==
    IF Peek(q) = ")" THEN q ELSE Close(q, "ForeachIterable", Expression(Open(q), {")"}, 0))

ForeachHeader(p) ==
    LET variables == OptionalVariables(Bump(Open(p)))
    IN Close(p, "ForeachHeader",
             Expect(Trivia(ForeachIterable(Separator(Trivia(variables), ":"))), ")"))

ForeachStatement(q) ==
    LET r == Trivia(Bump(q)) IN Body(IF At(r) = "(" THEN ForeachHeader(r) ELSE ErrorHere(r))

CaseClause(p) ==
    LET q == Trivia(Bump(Open(p)))
        r == IF At(q) = ":" THEN q ELSE Trivia(Expression(q, {":"}, 0))
    IN Close(p, "CaseClause", Expect(r, ":"))

DefaultClause(p) == Close(p, "DefaultClause", Expect(Trivia(Bump(Open(p))), ":"))

\* The two loops of parse_switch_section.
Clauses(q) ==
    CASE At(q) = "case" -> Clauses(Trivia(AssertProgress(q.at, CaseClause(q))))
      [] At(q) = "default" -> Clauses(Trivia(AssertProgress(q.at, DefaultClause(q))))
      [] OTHER -> q

SectionItems(q) ==
    IF At(q) \in {"}", "eof", "case", "default"} THEN q
    ELSE IF IsTrivia(At(q)) THEN SectionItems(Bump(q))
    ELSE SectionItems(AssertProgress(q.at, Statement(q)))

SwitchSection(p) == Close(p, "SwitchSection", SectionItems(Clauses(Open(p))))

SwitchItems(q) ==
    IF At(q) \in {"}", "eof"} THEN q
    ELSE IF IsTrivia(At(q)) THEN SwitchItems(Bump(q))
    ELSE IF At(q) \in {"case", "default"}
         THEN SwitchItems(AssertProgress(q.at, SwitchSection(q)))
    ELSE SwitchItems(AssertProgress(q.at, Statement(q)))

SwitchStatement(q) ==
    LET r == Trivia(Bump(q))
        h == Trivia(IF At(r) = "(" THEN Header(r, "SwitchHeader") ELSE ErrorHere(r))
    IN IF At(h) = "{" THEN Expect(SwitchItems(Bump(h)), "}") ELSE ErrorHere(h)

\* parse_return_statement and parse_prefixed_expression_statement
WithExpression(q) ==
    LET r == Bump(q)
    IN BumpIf(IF Peek(r) \in {";", "}"} THEN r ELSE Expression(r, {";", "}"}, 0), ";")

LocalDeclStatement(q) ==
    LET r == BumpIf(LocalDeclUntil(q, {";", "}"}, Flat), ";")
    IN [r EXCEPT !.kids = StructureDeclaration(@)]

DirectiveEnd(i) ==
    LET breaks == {j \in i + 1 .. End - 1 : tokens[j] = "nl"}
    IN IF breaks = {} THEN End ELSE Min(breaks) + 1

Directive(p) == Close(p, "Directive", Take(Open(p), DirectiveEnd(p.at)))

\* parse_statement_inner
StatementInner(p) ==
    LET q == Trivia(Open(p))
        kind == At(q)
    IN CASE kind \in {"}", "eof"} -> Close(p, "EmptyStatement", q)
         [] kind = "#" -> Close(p, "Directive", Directive(q))
         [] kind = "{" ->
              IF q.kids = <<>> THEN Block(p) ELSE Close(p, "Block", Block(q))
         [] kind = ";" -> Close(p, "EmptyStatement", Bump(q))
         [] kind = "if" -> Close(p, "IfStatement", IfStatement(q))
         [] kind = "for" -> Close(p, "ForStatement", ForStatement(q))
         [] kind = "foreach" -> Close(p, "ForeachStatement", ForeachStatement(q))
         [] kind = "while" -> Close(p, "WhileStatement", WhileStatement(q))
         [] kind = "do" -> Close(p, "DoWhileStatement", DoWhileStatement(q))
         [] kind = "switch" -> Close(p, "SwitchStatement", SwitchStatement(q))
         [] kind \in {"return", "delete", "thread"} ->
              Close(p, "ExpressionStatement", WithExpression(q))
         [] kind \in {"break", "continue"} ->
              Close(p, "FlowStatement", BumpIf(Trivia(Bump(q)), ";"))
         [] OTHER ->
              IF LooksLikeLocalDecl(q.at, FALSE)
              THEN Close(p, "LocalDecl", LocalDeclStatement(q))
              ELSE Close(p, "ExpressionStatement",
                         BumpIf(Expression(q, {";", "}"}, 0), ";"))

-----------------------------------------------------------------------------
(* Declarations.                                                           *)

RECURSIVE ClassItems(_), EnumItems(_), Attributes(_), AttributeItems(_),
          AttributeTail(_), Parameters(_), ParameterTail(_, _), FieldTail(_, _, _),
          SourceItems(_)

AttributeTail(q) ==
    CASE At(q) \in {",", "]", "eof"} -> BumpIf(q, ",")
      [] At(q) = "(" ->
           AttributeTail(Close(q, "AttributeArgs",
               Expect(AttributeArguments(Bump(Open(q))), ")")))
      [] OTHER -> AttributeTail(Bump(q))

Attribute(p) == Close(p, "Attribute", AttributeTail(Bump(Open(p))))

AttributeItems(q) ==
    IF At(q) \in {"]", "eof"} THEN q
    ELSE AttributeItems(IF At(q) \in Names THEN Attribute(q) ELSE Bump(q))

\* collect_attributes
Attributes(q) ==
    LET r == Trivia(q)
        list == Close(r, "AttributeList", Expect(AttributeItems(Bump(Open(r))), "]"))
    IN IF At(r) = "[" THEN Attributes(BumpIf(Trivia(list), ";")) ELSE r

ModifierList(q) ==
    LET end == Min({j \in q.at .. End : tokens[j] \notin Modifiers /\ ~IsTrivia(tokens[j])})
    IN IF At(q) \in Modifiers THEN Close(q, "ModifierList", Take(Open(q), end)) ELSE q

TypeRefUntil(p, stop) ==
    Close(p, "TypeRef", Take(Open(p), UnnestedOf(p.at, stop, Flat)))

\* parse_class_body
ClassItems(q) ==
    IF At(q) \in {"}", "eof"} THEN q
    ELSE IF IsTrivia(At(q)) THEN ClassItems(Bump(q))
    ELSE IF At(q) = "#" THEN ClassItems(Directive(q))
    ELSE ClassItems(AssertProgress(q.at, Declaration(q, TRUE)))

BaseType(q, separators) ==
    IF At(q) \in separators THEN TypeRefUntil(Trivia(Bump(q)), {"{", ";"}) ELSE q

ClassName(q) == IF At(q) \in Names THEN Bump(q) ELSE ErrorHere(q)
GenericParameters(q) == IF At(q) = "<" THEN AngleList(q) ELSE q

ClassBody(q) ==
    IF At(q) = "{" THEN Close(q, "Block", Expect(ClassItems(Bump(Open(q))), "}"))
    ELSE ErrorHere(q)

ClassDecl(q) ==
    LET named == Trivia(GenericParameters(Trivia(ClassName(Trivia(Bump(q))))))
        based == Trivia(BaseType(named, {":", "extends"}))
    IN BumpIf(Trivia(ClassBody(based)), ";")

EnumMember(p) ==
    LET q == Trivia(Bump(Open(p)))
        r == IF At(q) # "=" THEN Take(q, NextOf(q.at, {",", "}"}))
             ELSE IF Peek(Bump(q)) \in {",", "}"} THEN Bump(q)
             ELSE Expression(Bump(q), {",", "}"}, 0)
    IN Close(p, "EnumMember", BumpIf(Trivia(r), ","))

EnumItems(q) ==
    IF At(q) \in {"}", "eof"} THEN q
    ELSE EnumItems(IF At(q) \in Names THEN EnumMember(q) ELSE Bump(q))

EnumName(q) == IF At(q) \in Names THEN Bump(q) ELSE q

EnumBody(q) ==
    IF At(q) = "{" THEN Expect(EnumItems(Bump(q)), "}") ELSE ErrorHere(q)

EnumDecl(q) ==
    LET based == Trivia(BaseType(Trivia(EnumName(Trivia(Bump(q)))), {":"}))
    IN BumpIf(Trivia(EnumBody(based)), ";")

TypedefDecl(q) ==
    LET r == Trivia(Bump(q))
        stop == {";", "{", "}"}
    IN Expect(IF At(r) \in stop \union {"eof"} THEN r ELSE TypeRefUntil(r, stop), ";")

\* The loop of parse_parameter.
ParameterTail(q, depth) ==
    LET r == Bump(q)
    IN IF At(q) = "eof" \/ (depth = Flat /\ At(q) \in {",", ")"}) THEN q
       ELSE IF depth = Flat /\ At(q) = "="
            THEN ParameterTail(IF Peek(r) \in {",", ")"} THEN r
                               ELSE Expression(r, {",", ")"}, 0), depth)
       ELSE ParameterTail(r, Deeper(depth, At(q)))

\* parse_parameter_list
Parameters(q) ==
    IF At(q) \in {")", "eof"} THEN q
    ELSE IF IsTrivia(At(q)) \/ At(q) = "," THEN Parameters(Bump(q))
    ELSE Parameters(AssertProgress(q.at,
             Close(q, "Parameter", ParameterTail(Open(q), Flat))))

ParameterList(q) ==
    IF At(q) = "(" THEN Close(q, "ParameterList", Expect(Parameters(Bump(Open(q))), ")"))
    ELSE q

CallableBody(q) == IF At(q) = "{" THEN BumpIf(Trivia(Block(q)), ";") ELSE Expect(q, ";")

CallableDecl(q) ==
    CallableBody(Trivia(ParameterList(Take(q, NextOf(q.at, {"(", "{", ";"})))))

\* The loop of parse_field_decl.
FieldTail(q, inClass, depth) ==
    LET follows == /\ inClass /\ q.kids # <<>>
                   /\ \/ At(q) \in MemberStarts
                      \/ At(q) = "[" /\ tokens[Significant(q.at + 1)] \in Names
                   /\ HasDeclarator(q.kids) /\ AfterLineBreak(q.kids)
        r == Bump(q)
        value == IF Peek(r) = "{" THEN Initializer(Trivia(r))
                 ELSE IF Peek(r) \in {",", ";", "}"} THEN r
                 ELSE Expression(r, {",", ";", "}"}, 0)
    IN IF At(q) = "eof" \/ (depth = Flat /\ (At(q) \in {";", "}", "#"} \/ follows)) THEN q
       ELSE IF depth = Flat /\ At(q) = "=" THEN FieldTail(value, inClass, depth)
       ELSE FieldTail(r, inClass, Deeper(depth, At(q)))

FieldEnd(q) ==
    CASE At(q) = ";" -> Bump(q) [] At(q) = "eof" -> ErrorHere(q) [] OTHER -> q

\* parse_field_decl from children n + 1 on: a declaration that a directive
\* cuts off is an error
Field(q, n) ==
    IF At(q) = "#" THEN Wrap("Error", q)
    ELSE Wrap("FieldDecl",
              [FieldEnd(q) EXCEPT !.kids = SubSeq(@, 1, n)
                                   \o StructureDeclaration(SubSeq(@, n + 1, Len(@)))])

FieldDecl(q, inClass) == Field(FieldTail(q, inClass, Flat), Len(q.kids))

ErrorUntilSync(q) ==
    LET e == ErrorHere(q)
        stop == Min({j \in e.at .. End :
                       \/ tokens[j] \in {";", "{", "}", "eof"}
                       \/ tokens[j] \in SyncStarts /\ (e.kids # <<>> \/ j > e.at)})
    IN IF At(e) = "{" THEN Block(e) ELSE BumpIf(Take(e, stop), ";")

\* parse_declaration_or_error_inner, after attributes and modifiers
DeclarationOf(p, q, inClass) ==
    LET kind == At(q)
    IN CASE kind = "class" -> Close(p, "ClassDecl", ClassDecl(q))
         [] kind = "enum" -> Close(p, "EnumDecl", EnumDecl(q))
         [] kind = "typedef" -> Close(p, "TypedefDecl", TypedefDecl(q))
         [] kind = "#" -> Close(p, "Directive", Directive(q))
         [] kind = ";" -> Close(p, "EmptyDecl", Bump(q))
         [] kind = "}" -> Close(p, "Error", Bump(ErrorHere(q)))
         [] OTHER ->
              IF LooksLikeCallable(q.at, 0) THEN Close(p, "CallableDecl", CallableDecl(q))
              ELSE IF kind \in DeclarationStarts
                   THEN LET f == FieldDecl(q, inClass) IN [f EXCEPT !.kids = p.kids \o @]
              ELSE Close(p, "Error", ErrorUntilSync(q))

DeclarationInner(p, inClass) ==
    DeclarationOf(p, Trivia(ModifierList(Trivia(Attributes(Open(p))))), inClass)

\* with_recursion_budget
Budgeted(rule, p, stop, power) ==
    LET q == Enter(p)
    IN IF AtLimit(p) THEN Recover(p, stop)
       ELSE Leave(CASE rule = "expression" -> ExpressionInner(q, stop, power)
                    [] rule = "initializer" -> InitializerInner(q)
                    [] rule = "statement" -> StatementInner(q)
                    [] rule = "declaration" -> DeclarationInner(q, FALSE)
                    [] rule = "member" -> DeclarationInner(q, TRUE))

-----------------------------------------------------------------------------
(* Sources.                                                                *)

SourceItems(p) ==
    IF At(p) = "eof" THEN p
    ELSE IF IsTrivia(At(p)) THEN SourceItems(Bump(p))
    ELSE IF At(p) = "#" THEN SourceItems(Directive(p))
    ELSE SourceItems(AssertProgress(p.at, Declaration(p, FALSE)))

Fresh == [at |-> 1, kids |-> <<>>, depth |-> 0, errors |-> 0,
          recovered |-> FALSE, limited |-> FALSE, stuck |-> FALSE]

Init == tokens \in Sources /\ parsed = Fresh /\ before = <<>>

\* parse_source, with the end of the file as the last child
ParseSource ==
    /\ parsed = Fresh
    /\ parsed' = Bump(SourceItems(Fresh))
    /\ UNCHANGED <<tokens, before>>

Done == parsed # Fresh

Tree == Node("SourceFile", parsed.kids)

\* What a tree says of the program: it without the trivia.
RECURSIVE Shape(_)
Shape(e) ==
    LET solid == SelectSeq(e.kids, LAMBDA kid : ~IsTrivia(TokenOf(kid)))
    IN IF e.kind = "token" THEN <<tokens[e.at]>>
       ELSE <<e.kind>> \o [i \in DOMAIN solid |-> Shape(solid[i])]

\* A user breaks a line of a well-formed source, which is parsed again.
BreakLine(i) ==
    /\ Done /\ before = <<>> /\ tokens \in WellFormed
    /\ tokens[i] = "ws"
    /\ tokens' = [tokens EXCEPT ![i] = "nl"]
    /\ before' = Shape(Tree)
    /\ parsed' = Fresh

Next == ParseSource \/ \E i \in 1 .. End : BreakLine(i)

Spec == Init /\ [][Next]_<<tokens, parsed, before>>

-----------------------------------------------------------------------------
(* Properties                                                              *)

\* The parser stands in the source or after it, with every call returned from.
TypeOK ==
    /\ tokens \in Sources \/ before # <<>>
    /\ parsed.at \in 1 .. End + 1 /\ parsed.depth = 0 /\ parsed.errors \in Nat
    /\ {parsed.recovered, parsed.limited, parsed.stuck} \subseteq BOOLEAN

\* The tree holds every token of the source once and in its order, so that
\* the server's positions and edits, taken from the tree, are those of the
\* text; the regrouping of declarations moves and drops nothing.
KeepsEveryToken ==
    Done /\ ~parsed.stuck => Leaves(Tree) = [i \in 1 .. End |-> i]

\* Below the recursion limit every loop consumes a token in every pass:
\* assert_progress never ends the process, and no loop runs for ever.
StuckOnlyAtTheLimit == parsed.stuck => parsed.limited

\* Whatever is wrong in the body of a method whose brackets match, also where
\* the limit is reached in it, the class that follows is recognised.  A
\* directive ends with its line and may swallow a bracket, and so may "?",
\* whose first operand ends at ":" only.
ErrorsStayInTheBody ==
    LET last == End - 4
    IN Done /\ ~parsed.stuck /\ tokens \in Broken
       => \E i \in DOMAIN parsed.kids :
             parsed.kids[i].kind = "ClassDecl" /\ Head(Leaves(parsed.kids[i])) = last

\* The text after "=" on the next line reads as a declaration, as "a + b;"
\* does, and is taken for one.
Misread ==
    \E i \in 1 .. End - 2 :
       tokens[i] = "=" /\ tokens[i + 1] = "nl" /\ LooksLikeLocalDecl(i + 2, FALSE)

\* A well-formed source parses without a diagnostic, and a line break in it,
\* which the recovery of unfinished declarations looks at, changes no node.
LayoutIsIrrelevant ==
    Done /\ ~Misread /\ (tokens \in WellFormed \/ before # <<>>)
    => /\ parsed.errors = 0 /\ "Error" \notin Nodes(Tree)
       /\ before # <<>> => Shape(Tree) = before

\* All of this of the sources at hand.
SourceIsKept ==
    KeepsEveryToken /\ StuckOnlyAtTheLimit /\ ErrorsStayInTheBody /\ LayoutIsIrrelevant
=============================================================================
