--------------------------- MODULE MC_TypeAdapter ---------------------------
(***************************************************************************)
(* Model-checking instance of TypeAdapter: every function with up to       *)
(* MaxIns instructions over two locals and two parameters, every           *)
(* _TypeOfInstruction array over two vregs and two types, and the function *)
(* foo of tests/type_adapter_test/type_adapter_test.cpp.                   *)
(***************************************************************************)
EXTENDS TypeAdapter

Regs    == 2      \* regs_num of the enumerated functions
Params  == 2      \* parameter count of the enumerated functions
MaxIns  == 3      \* longest enumerated instruction list
Types   == {1, 2}
Vregs   == {0, 1}

\* Instructions over locals 0..Regs-1 and arguments Regs..Regs+Params-1;
\* LDA_DYN stands for every opcode the pass does not look at.
Insn(r, p) ==
  {[op |-> "INVALID", regs |-> <<>>], [op |-> "LDA_DYN", regs |-> <<0>>]}
  \cup {[op |-> "STA_DYN", regs |-> <<v>>] : v \in 0..r + p - 1}
  \cup {[op |-> "MOV_DYN", regs |-> <<d, s>>] : d, s \in 0..r + p - 1}

\* Flat [vreg, type, ...] arrays: every map over Vregs, plus one array
\* naming a vreg twice (the first pair wins).
TypeArrays ==
  {FlattenSeq([k \in 1..Len(ks) |-> <<ks[k], t[ks[k]]>>]) :
      ks \in {<<>>, <<0>>, <<1>>, <<0, 1>>}, t \in [Vregs -> Types]}
  \cup {<<0, 1, 0, 2>>}

TypeAnno(elems) == [name |-> "_ESTypeAnnotation", elems |-> elems]
TOI(vals)       == [name |-> "_TypeOfInstruction", value |-> vals]
OfVreg(vals)    == [name |-> "typeOfVreg", value |-> vals]
CallTypeAnno    == [name |-> "_ESCallTypeAnnotation",
                    elems |-> <<[name |-> "callType", value |-> <<0>>]>>]

\* Annotation lists as the decoder and the test build them.
AnnoLists(vals) ==
  { <<TypeAnno(<<TOI(vals)>>)>>,
    <<CallTypeAnno, TypeAnno(<<OfVreg(vals), TOI(vals)>>)>>,
    <<TypeAnno(<<OfVreg(vals)>>), TypeAnno(<<TOI(vals)>>)>> }

Enumerated ==
  { [params |-> Params, regsNum |-> Regs, ins |-> l,
     annos |-> <<TypeAnno(<<TOI(vals)>>)>>] :
       l \in BoundedSeq(Insn(Regs, Params), MaxIns), vals \in TypeArrays }
  \cup
  { [params |-> Params, regsNum |-> Regs, ins |-> l, annos |-> as] :
       l \in BoundedSeq(Insn(Regs, Params), 2),
       as \in AnnoLists(<<0, 1, 1, 2>>) }

\* foo of the unit test: a0 and a1 are registers 5 and 6.
Mov(d, s) == [op |-> "MOV_DYN", regs |-> <<d, s>>]
Sta(v)    == [op |-> "STA_DYN", regs |-> <<v>>]
Op(o)     == [op |-> o, regs |-> <<>>]
Foo ==
  [params |-> 2, regsNum |-> 5,
   ins |-> <<Mov(1, 6), Mov(0, 5), Op("LDLEXENVDYN"), Sta(4), Op("LDA_DYN"),
             Sta(3), Op("LDA_DYN"), Op("ADD2DYN"), Sta(2), Op("LDA_DYN"),
             Sta(3), Op("LDA_DYN"), Op("RETURN_DYN")>>,
   annos |-> <<TypeAnno(<<TOI(<<0, 1, 1, 1, 2, 1>>)>>)>>]

\* Inputs satisfying the code's ASSERTs, one function per program, and foo
\* followed by another function.
MCFuncs ==
  {<<f>> : f \in {g \in Enumerated : ArgsBoundFirst(g)}}
  \cup {<<Foo>>, <<Foo, [Foo EXCEPT !.annos = <<CallTypeAnno>>]>>}

\* Every input, the ones the ASSERTs rule out included.
MCFuncsAll == {<<f>> : f \in Enumerated}

=============================================================================
