---------------------------- MODULE SourceTexts ----------------------------
(***************************************************************************)
(* Sources for Parser, as sequences of token kinds: programs made of every *)
(* form of declaration, statement and expression; and programs with a hole *)
(* that holds whatever a user leaves there, among its members, in a method *)
(* or before everything.                                                   *)
(***************************************************************************)
EXTENDS Naturals, Sequences

Expressions ==
    {<<"id">>, <<"id", "(", "id", ",", "id", ":", "id", ")">>, <<"id", ".", "id", "(", ")">>,
     <<"id", "[", "num", "]">>, <<"(", "id", ")", "id">>, <<"!", "id">>,
     <<"id", "+", "id">>, <<"id", "<", "num">>, <<"id", "?", "num", ":", "id">>,
     <<"new", "id", "<", "int", ">", "(", ")">>,
     <<"id", "<", "int", ">", ".", "id", "(", ")">>}

Blocks == <<"{", "id", "(", ")", ";", "id", "id", ";", "}">>

Statements ==
    UNION {{e \o <<";">>,
            <<"id", "=">> \o e \o <<";">>,
            <<"id", "id", "=">> \o e \o <<",", "id", ";">>,
            <<"return">> \o e \o <<";">>,
            <<"if", "(">> \o e \o <<")">> \o Blocks \o <<"else", "delete">> \o e \o <<";">>,
            <<"do">> \o Blocks \o <<"while", "(">> \o e \o <<")", ";">>,
            <<"for", "(", "int", "id", "=">> \o e \o <<";">> \o e \o <<";", "id", "++", ")">>
                \o Blocks,
            <<"foreach", "(", "id", "id", ",", "id", "<", "id", ">", "id", ":">> \o e
                \o <<")">> \o Blocks,
            <<"switch", "(">> \o e \o <<")", "{", "case", "id", ":", "break", ";", "default", ":">>
                \o e \o <<";", "}">>} : e \in Expressions}
    \union {<<"id", "<", "id", ",", "id", "<", "id", ">>", "id", "=", "null", ";">>,
            <<"int", "id", "[", "num", "]", ",", "id", "=", "{", "{", "num", "}", "}", ";">>}

Members ==
    {<<"id", "id", ";">>,
     <<"ref", "id", "<", "id", ">", "id", "=", "new", "id", "(", ")", ";">>,
     <<"[", "id", "(", "id", ":", "num", ",", "str", ")", "]", "protected", "id", "id", ";">>,
     <<"static", "const", "int", "id", "=", "num", ",", "id", "=", "num", ";">>,
     <<"proto", "external", "int", "id", "(", "string", "id", ")", ";">>,
     <<"void", "~", "id", "(", ")", "{", "}">>}

Class(members) == <<"class", "id", ":", "id", "{">> \o members \o <<"}">>
Method(body) ==
    <<"override", "void", "id", "(", "id", "id", "=", "null", ",", "int", "id", ")", "{">>
    \o body \o <<"}">>

Spaced(s) == [i \in 1 .. 2 * Len(s) |->
                 IF i % 2 = 1 THEN s[(i + 1) \div 2] ELSE IF i = 2 * Len(s) THEN "eof" ELSE "ws"]

WellFormed ==
    {Spaced(Class(Method(s))) : s \in Statements}
    \union {Spaced(Class(m \o n)) : m, n \in Members}
    \union {Spaced(<<"enum", "id", "{", "id", ",", "id", "=", "num", "}">>),
            Spaced(<<"typedef", "id", "<", "id", ">", "id", ";">>)}

Words ==
    {"id", "int", "(", ")", "{", "}", "[", "]", ";", ",", "=", "<", ">", ":", ".", "!", "?",
     "#", "nl", "if", "for", "foreach", "switch", "case", "class", "enum", "typedef", "new",
     "private", "num", "else", "do", "while", "return"}
Words3 == {"id", "(", ")", "{", "}", ";", ",", "=", "nl", "foreach"}

Left(kinds, n) == UNION {[1 .. k -> kinds] : k \in 0 .. n}
Holes == Left(Words, 2) \union Left(Words3, 3)

Before == <<"class", "id", "{", "void", "id", "(", ")", "{">>
After == <<"class", "id", "{", "}", "eof">>
InBody(hole) == Before \o hole \o <<"}", "}">> \o After
Among(hole) == <<"class", "id", "{">> \o hole \o <<"}">> \o After

\* Holes inside of brackets, as deep as a recursion limit of seven.
InBlocks(hole) == <<"{", "{", "{", "{">> \o hole \o <<"}", "}", "}", "}">>
InInitializers(hole) == <<"id", "=", "{", "{", "{">> \o hole \o <<"}", "}", "}", ";">>
InCalls(hole) == <<"id", "(", "id", "(", "id", "(">> \o hole \o <<")", ")", ")", ";">>

Closes == [kind \in {"(", "[", "{", "<"} |->
              CASE kind = "(" -> ")" [] kind = "[" -> "]" [] kind = "{" -> "}" [] OTHER -> ">"]

RECURSIVE Balanced(_, _)
Balanced(s, open) ==
    IF s = <<>> THEN open = <<>>
    ELSE IF Head(s) \in DOMAIN Closes
         THEN Balanced(Tail(s), Append(open, Closes[Head(s)]))
    ELSE IF Head(s) \in {")", "]", "}", ">"}
         THEN open # <<>> /\ open[Len(open)] = Head(s)
              /\ Balanced(Tail(s), SubSeq(open, 1, Len(open) - 1))
    ELSE Balanced(Tail(s), open)

Inner == Left(Words, 1) \union Left(Words3, 2)
Bodies ==
    Holes \union UNION {{InBlocks(hole), InInitializers(hole), InCalls(hole)} : hole \in Inner}

\* An initializer at the limit does not end where the call around it does.
Broken ==
    LET Fair(hole) == /\ Balanced(hole, <<>>)
                      /\ \A i \in DOMAIN hole : hole[i] \notin {"#", "?"}
        Within == {InBlocks(hole) : hole \in Inner} \union {InInitializers(hole) : hole \in Inner}
                  \union {InCalls(hole) : hole \in {h \in Inner : \A i \in DOMAIN h : h[i] # "{"}}
    IN {InBody(hole) : hole \in {h \in Holes \union Within : Fair(h)}}

Sources ==
    WellFormed \union {InBody(hole) : hole \in Bodies}
    \union {Among(hole) : hole \in Holes} \union {hole \o After : hole \in Left(Words, 2)}
=============================================================================
