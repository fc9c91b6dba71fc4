---------------------------- MODULE MCIedClient ----------------------------
(* IEDs with one device and one logical node LN: data objects A, B and C   *)
(* with one attribute each, a data set of the attribute of A, and the      *)
(* control block that reports it.                                          *)
EXTENDS IedClient

LN == <<"LD", "LN">>
A == Append(LN, "A")
B == Append(LN, "B")
C == Append(LN, "C")
S == Append(LN, "S")
R == Append(LN, "R")
Af == Append(A, "f")
Bf == Append(B, "f")
Cf == Append(C, "f")
RDatSet == Append(R, "DatSet")

MCKids ==
  (<< >> :> <<"LD">>) @@ (<<"LD">> :> <<"LN">>) @@ (LN :> <<"A", "B", "C", "S", "R">>)
    @@ (A :> <<"f">>) @@ (B :> <<"f">>) @@ (C :> <<"f">>) @@ (S :> << >>) @@ (R :> <<"DatSet">>)
    @@ [p \in {Af, Bf, Cf, RDatSet} |-> << >>]
MCClass == (A :> "DO") @@ (B :> "DO") @@ (C :> "DO") @@ (S :> "DS") @@ (R :> "URCB")
MCMembers == S :> <<Af>>
MCDatSet == R :> S
MCTypeOf == (Af :> "float") @@ (Bf :> "integer") @@ (Cf :> "bit-string")
              @@ (RDatSet :> "visible-string")
(* A discovery may be cut before the node is listed, in the directory of B *)
(* and below it, and before the data sets are listed.                      *)
MCCuts == {2, 6, 7, 13}

MCChanging == {Af, Bf}
AtHosts(paths) == Hosts \X paths
AttributesAB == AtHosts({Af, Bf})
AttributeB == AtHosts({Bf})
ObjectA == AtHosts({A})
ObjectC == AtHosts({C})
Nothing == {}
=============================================================================
