------------------------------ MODULE MCLinker ------------------------------
(***************************************************************************)
(* Small object modules for the linker.                                    *)
(***************************************************************************)
EXTENDS Linker

To(n) == [address |-> TRUE, name |-> n, own |-> 0]
Call32(n) == [address |-> FALSE, name |-> n, own |-> 0]
Own(i) == [address |-> TRUE, name |-> Null, own |-> i]
Sg(clazz, group, align, len, fixups) ==
  [clazz |-> clazz, group |-> group, align |-> align, len |-> len, fixups |-> fixups]
Pub(n, i) == [kind |-> "public", name |-> n, arg |-> i]
Com(n, len) == [kind |-> "common", name |-> n, arg |-> len]
Imp(kind, n, at) == [kind |-> kind, name |-> n, arg |-> at]
Obj(id, lib, smart, extrnl, segs, decls, exps) ==
  [id |-> id, lib |-> lib, smart |-> smart, extrnl |-> extrnl, segs |-> segs, decls |-> decls,
   exports |-> exps]

\* A program, two libraries with a cycle between segments, a module with
\* exports of its own segments, COMMON blocks, imports, a COFF import library.
Program == Obj(1, Null, TRUE, Null, <<Sg("CODE", 1, 4, 5, <<To("y")>>), Sg("CONST", 1, 2, 3, <<Own(1)>>)>>,
               <<Pub("x", 1)>>, <<>>)
Cycle == Obj(2, "L", TRUE, Null, <<Sg("CODE", 2, 2, 3, <<To("z")>>), Sg("DATA", 1, 4, 2, <<Own(1), Call32("y")>>)>>,
             <<Pub("y", 1), Pub("z", 2)>>, <<>>)
Whole == Obj(3, "M", FALSE, Null,
             <<Sg("DATA", 1, 1, 3, <<>>), Sg("CONST", 1, 4, 6, <<To("x"), Own(1)>>), Sg("DEBUG", 1, 1, 2, <<Own(1)>>)>>,
             <<Pub("z", 1), Com("y", 5)>>, <<>>)
Exporter == Obj(4, Null, FALSE, Null, <<Sg("CODE", 1, 2, 3, <<Own(2)>>), Sg("DATA", 2, 1, 1, <<To("y")>>)>>,
                <<>>, <<[ext |-> "x", int |-> "x", ord |-> 2, seg |-> 2], [ext |-> "a", int |-> "a", ord |-> 0, seg |-> 1]>>)
Blocks == Obj(5, Null, TRUE, Null, <<Sg("BSS", 0, 4, 5, <<>>)>>, <<Com("y", 3), Pub("x", 1)>>,
              <<[ext |-> "z", int |-> "z", ord |-> 0, seg |-> 0]>>)
Dll == Obj(6, "D", FALSE, Null, <<>>, <<Imp("impfunc", "z", 1), Imp("impvar", "y", 3)>>, <<>>)
Weakly == Obj(7, Null, FALSE, Null, <<Sg("CODE", 1, 4, 1, <<Call32("y"), To("z")>>)>>,
              <<[kind |-> "weak", name |-> "y", arg |-> 0], Pub("x", 1), Imp("impvar", "z", 2)>>, <<>>)
Stubs == Obj(8, "L", TRUE, "z", <<Sg("IDATA", 4, 16, 4, <<Call32("y")>>), Sg("IDATA", 2, 4, 12, <<To("x"), Own(1)>>)>>,
             <<Pub("y", 2)>>, <<>>)
Absolute == Obj(9, Null, TRUE, Null, <<Sg("CODE", 1, 1, 1, <<>>)>>, <<Pub("z", 0), Pub("y", 1)>>, <<>>)

Pool == {Program, Cycle, Whole, Exporter, Blocks, Dll, Weakly, Stubs, Absolute}

MCEntries == {"x", Null}
Exp(ext, int, ord, src) == [ext |-> ext, int |-> int, ord |-> ord, src |-> src]
Exps == {Exp("x", "x", 0, CMDLINE), Exp("a", "y", 1, CMDLINE), Exp("x", "z", 2, EDFMOD), Exp("z", "y", 0, EDFMOD)}
=============================================================================
