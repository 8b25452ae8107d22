------------------------------ MODULE MCLayout ------------------------------
(* The targets and the declarations of Layout; the targets, the aggregates *)
(* and the signatures of CAbi.                                             *)
EXTENDS CCalls

Target(name, ptr, a8, ms, msvc, aapcs) ==
  [name |-> name, ptr |-> ptr, i64 |-> a8, f64 |-> a8, ms |-> ms, msvc |-> msvc, aapcs |-> aapcs]
Linux64 == Target("x86_64-linux", 8, 8, FALSE, FALSE, FALSE)
ArmDarwin == Target("aarch64-darwin", 8, 8, FALSE, FALSE, FALSE)
ArmLinux64 == Target("aarch64-linux", 8, 8, FALSE, FALSE, TRUE)
Win64 == Target("x86_64-windows-msvc", 8, 8, TRUE, TRUE, FALSE)
Mingw == Target("x86_64-windows-gnu", 8, 8, TRUE, FALSE, FALSE)
ArmLinux32 == Target("arm-linux", 4, 8, FALSE, FALSE, TRUE)
Win32 == Target("i686-windows-msvc", 4, 8, TRUE, TRUE, FALSE)
Linux32 == Target("i386-linux", 4, 4, FALSE, FALSE, FALSE)

Inner == StructOf(<<Field("x", IntOf(1)), Field("y", IntOf(4))>>, 2)
InnerBits == StructOf(<<Bits("x", IntOf(4), 20, FALSE), Bits("y", IntOf(4), 9, TRUE)>>, 0)
Overlaid == UnionOf(<<Field("c", ArrayOf(5, IntOf(1))), Field("i", IntOf(4))>>, 2)
Pool(n) ==
  {Field(n, IntOf(1)), Field(n, IntOf(8)), Field(n, Inner),
   Bits(n, Bool1, 1, FALSE), Bits(n, IntOf(1), 3, TRUE), Bits(n, IntOf(4), 12, FALSE), Bits(n, IntOf(8), 40, TRUE),
   Unnamed(IntOf(4), 0), Unnamed(IntOf(2), 5)}
More(n) == Pool(n) \cup {Field(n, IntOf(2)), Field(n, FpOf(8)), Field(n, Ptr), Field(n, InnerBits), Field(n, ArrayOf(3, Overlaid)),
                         Bits(n, IntOf(4), 31, TRUE)}
Triples == {<<x, y, z>> : x \in Pool("a"), y \in Pool("b"), z \in Pool("c")}
Pairs == {<<x, y>> : x \in More("a"), y \in More("b")}
Declarations ==
  {StructOf(fs, pack) : fs \in Triples \cup Pairs, pack \in {0, 1, 2}}
    \cup {UnionOf(fs, pack) : fs \in {<<x, y>> : x \in Pool("a") \cup {Field("a", Overlaid)}, y \in More("b")}, pack \in {0, 1, 2}}
UnionsOfBits(d) == d.union /\ \E i \in DOMAIN d.fields : d.fields[i].bits > 0 /\ ~d.fields[i].unnamed
Payloads == {<<>>, <<IntOf(4)>>, <<IntOf(1), Ptr>>, <<IntOf(1), IntOf(8), IntOf(1)>>, <<FpOf(8), IntOf(4)>>}
Sums == {SumOf(<<p, q>>) : p \in Payloads, q \in Payloads}

LayoutTargets == {Linux64, ArmLinux64, ArmLinux32, Win64, Mingw, Linux32}
LayoutJobs == [pass : {"layout"}, target : LayoutTargets,
               type : {d \in Declarations : ~UnionsOfBits(d)} \cup Sums]

-----------------------------------------------------------------------------
For(target, abi, darwin, hard, inRegs) ==
  target @@ [abi |-> abi, darwin |-> darwin, hard |-> hard, inRegs |-> inRegs]
SysvCalls == For(Linux64, "sysv", FALSE, FALSE, FALSE)
ArmDarwinCalls == For(ArmDarwin, "aarch64", TRUE, FALSE, FALSE)
ArmLinuxCalls == For(ArmLinux64, "aarch64", FALSE, FALSE, FALSE)
Win64Calls == For(Win64, "win64", FALSE, FALSE, FALSE)
ArmSoftCalls == For(ArmLinux32, "arm32", FALSE, FALSE, FALSE)
ArmHardCalls == For(ArmLinux32, "arm32", FALSE, TRUE, FALSE)
Linux32Calls == For(Linux32, "x86", FALSE, FALSE, FALSE)
Darwin32Calls == For(Linux32, "x86", TRUE, FALSE, TRUE)
Win32Calls == For(Win32, "x86", FALSE, FALSE, TRUE)

S(ts) == StructOf([i \in DOMAIN ts |-> Field(<<"a", "b", "c", "d", "e">>[i], ts[i])], 0)
Sm == S(<<IntOf(4), IntOf(1)>>)
Big == S(<<IntOf(8), IntOf(8), IntOf(8), IntOf(8), IntOf(8)>>)
U == UnionOf(<<Field("l", IntOf(8)), Field("d", FpOf(8))>>, 0)
Aggregates ==
  {Sm, U, Big, S(<<IntOf(8), IntOf(8), FpOf(8)>>), UnionOf(<<Field("f", FpOf(4)), Unnamed(IntOf(4), 5)>>, 0),
   S(<<FpOf(4), FpOf(4)>>), S(<<FpOf(8), FpOf(8), FpOf(8)>>), S(<<FpOf(4), FpOf(4), FpOf(4), FpOf(4)>>),
   S(<<FpOf(4), IntOf(4)>>), S(<<IntOf(4), IntOf(4), IntOf(4)>>), S(<<IntOf(1), IntOf(1), IntOf(1)>>),
   S(<<FpOf(8), IntOf(8)>>), S(<<FpOf(4), FpOf(8)>>), S(<<IntOf(4), U>>), S(<<Sm, IntOf(4)>>),
   S(<<FpOf(8)>>), S(<<ArrayOf(1, FpOf(4))>>), S(<<Ptr>>), S(<<Ptr, IntOf(2)>>), S(<<IntOf(8), IntOf(1)>>),
   S(<<IntOf(4), FpOf(8)>>), S(<<ArrayOf(3, IntOf(2))>>), S(<<FpOf(4), ArrayOf(2, FpOf(4))>>),
   S(<<IntOf(4), FpOf(4), FpOf(4)>>),
   StructOf(<<Field("t", IntOf(1)), Field("v", IntOf(8))>>, 1), StructOf(<<Field("t", IntOf(1)), Field("v", IntOf(8))>>, 4),
   StructOf(<<Field("t", FpOf(8)), Field("v", FpOf(8))>>, 4),
   UnionOf(<<Field("f", FpOf(4)), Field("d", FpOf(8))>>, 0), UnionOf(<<Field("i", IntOf(4)), Field("d", FpOf(8))>>, 0),
   UnionOf(<<Field("c", ArrayOf(5, IntOf(1))), Field("i", IntOf(4))>>, 2),
   StructOf(<<Bits("a", IntOf(4), 3, FALSE), Bits("b", IntOf(4), 5, FALSE), Bits("c", IntOf(4), 24, FALSE)>>, 0),
   StructOf(<<Bits("a", IntOf(1), 4, FALSE), Bits("w", IntOf(4), 12, FALSE), Field("f", FpOf(4))>>, 0),
   StructOf(<<Field("f", FpOf(4)), Unnamed(IntOf(4), 7), Field("g", FpOf(4))>>, 0),
   StructOf(<<Unnamed(IntOf(8), 9), Field("g", FpOf(8))>>, 0),
   StructOf(<<Field("f", FpOf(8)), Unnamed(IntOf(8), 0)>>, 0),
   StructOf(<<Bits("a", IntOf(8), 33, FALSE), Field("g", IntOf(4))>>, 0)}

Repeat(n, t) == [i \in 1..n |-> t]
\* Scalars that leave few registers of each kind, then the aggregate, then what comes after it.
Before(T) ==
  CASE T.abi = "sysv" -> {Repeat(i, IntOf(8)) \o Repeat(f, FpOf(8)) : i \in {0, 5, 6}, f \in {0, 7, 8}}
    [] T.abi = "aarch64" -> {Repeat(i, IntOf(8)) \o Repeat(f, FpOf(4)) : i \in {0, 7}, f \in {0, 6}}
    [] T.abi = "win64" -> {Repeat(i, IntOf(4)) : i \in {0, 3, 4}}
    [] T.abi = "arm32" -> {Repeat(i, IntOf(4)) \o Repeat(f, FpOf(4)) : i \in {0, 1, 3, 5}, f \in {0, 3}}
    [] OTHER -> {<<>>, <<IntOf(1)>>}
After == {<<>>, <<Sm, FpOf(8)>>}
Varargs == {<<>>, <<IntOf(4), FpOf(8), IntOf(8), FpOf(8)>> \o Repeat(6, IntOf(4)) \o Repeat(8, FpOf(8)) \o <<IntOf(8)>>}
Job(T, ret, params, varargs) == [pass |-> "cabi", target |-> T, ret |-> ret, params |-> params, varargs |-> varargs]
CAbiTargets == {SysvCalls, ArmDarwinCalls, ArmLinuxCalls, Win64Calls, ArmSoftCalls, ArmHardCalls, Linux32Calls, Darwin32Calls, Win32Calls}
CAbiJobs ==
  UNION {{Job(T, NoType, b \o <<a>> \o z, <<>>) : b \in Before(T), a \in Aggregates, z \in After} : T \in CAbiTargets}
    \cup UNION {{Job(T, Big, b \o <<a>>, <<>>) : b \in Before(T), a \in {Sm, U}} : T \in CAbiTargets}
    \cup UNION {{Job(T, a, <<IntOf(4), Sm>>, v) : a \in Aggregates, v \in Varargs} : T \in CAbiTargets}
=============================================================================
