---------------------------- MODULE SymbolFiles ----------------------------
(***************************************************************************)
(* Small sources for SymbolIndex: two files of one class with a method, a  *)
(* parameter, a local and a field, one of them of higher priority; a class *)
(* derived from it and one that closes a cycle; typedefs of each other;    *)
(* a file outside the editor's categories; and an invalid contribution.    *)
(***************************************************************************)
EXTENDS Naturals, Sequences

CONSTANT None

Declared(id, kind, name, parent, type) ==
    [id |-> id, kind |-> kind, name |-> name, parent |-> parent, type |-> type]

FileOf(priority, editor, symbols) ==
    [priority |-> priority, editor |-> editor, symbols |-> symbols]

Run(class, parameter) ==
    <<Declared(2, "Method", "Run", 1, "void"),
      Declared(3, "LocalVariable", "i", 2, "int"),
      Declared(4, "Parameter", "p", 2, parameter)>>

Game == FileOf(1, TRUE,
    <<Declared(1, "Class", "A", None, None)>> \o Run("A", "int")
        \o <<Declared(5, "Field", "f", 1, "int")>>)

Modded == FileOf(2, TRUE,
    <<Declared(1, "Class", "A", None, None)>> \o Run("A", "int")
        \o <<Declared(5, "Method", "Run", 1, "void")>>)

Derived == FileOf(1, TRUE,
    <<Declared(1, "Class", "B", None, "A"),
      Declared(2, "Method", "Run", 1, "void"),
      Declared(3, "Parameter", "p", 2, "int"),
      Declared(4, "Class", "C", None, "B"),
      Declared(5, "Field", "f", 4, "int")>>)

Cyclic == FileOf(2, TRUE,
    <<Declared(1, "Class", "A", None, "B"), Declared(2, "Field", "f", 1, "int"),
      Declared(3, "Typedef", "T", None, "U")>>)

Hidden == FileOf(2, FALSE,
    <<Declared(1, "Typedef", "U", None, "A"), Declared(2, "Class", "C", None, "A"),
      Declared(3, "Field", "f", 2, "int"), Declared(4, "Function", "A", None, "int")>>)

Aliases == FileOf(1, TRUE, <<Declared(1, "Typedef", "U", None, "T")>>)

Invalid == FileOf(1, TRUE, <<Declared(2, "Class", "A", None, None)>>)

Files == {Game, Modded, Derived, Cyclic, Hidden, Aliases, Invalid}
=============================================================================
