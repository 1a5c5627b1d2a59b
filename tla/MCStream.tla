------------------------------ MODULE MCStream ------------------------------
(* Two buffers, a writer that fills and sends them, and one reader.         *)
EXTENDS Stream, TLC
LOCAL INSTANCE FiniteSets

Text == <<97>>
Control == <<98, 1>>
Words == ArrayValue(<<StringValue(Text), IntValue(200)>>)
Record == MapValue(Text :> IntValue(0 - 5) @@ <<97, 98>> :> StringValue(Text))
Vector == TensorValue(DTypeDouble, <<2>>, <<3, 0 - 1>>)
Dense == TensorValue(1, <<1, 2>>, <<0 - 2, 130>>)

MCValues ==
  {IntValue(0), Words, ArrayValue(<<Words, DoubleValue(0 - 3), Null, Record>>),
   ArrayValue(<<Vector, Dense, BoolMapValue(9, <<128, 128>>)>>)}
MCJsonValues ==
  {Null, BoolValue(TRUE), StringValue(Control), StringValue(<<34, 10>>),
   MapValue(Text :> StringValue(<<1>>)), ArrayValue(<<DoubleValue(4), DoubleValue(0 - 1)>>),
   ArrayValue(<<IntValue(0 - 12), MapValue(NoKeys), ArrayValue(<<>>)>>)}
MCObjects == {IntValue(0), Words}
MCMade == {<<"current", 0 - 2>>, <<"end", 3>>}

Symmetry == Permutations(Outs)
=============================================================================
