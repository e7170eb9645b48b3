------------------------------ MODULE MCCodec -------------------------------
EXTENDS Codec

\* Scalars of every type, a small and two wide integers, what JSON cannot write,
\* containers of one type and of two, and one in another.
MCValues ==
  {Null, Leaf("bool", 1), Str(1), Leaf("float", 1),
   Num(1), Num(5), Num(-9), Leaf("nonfinite", 1), Leaf("bytes", 1),
   Array(<<>>), Array(<<Num(5), Num(1)>>), Array(<<Num(1), Str(1)>>),
   Array(<<Array(<<Num(-9)>>)>>), Object(<<Num(12)>>)}

\* An empty std::any, an integer and containers.
MCStray == {Null, Num(1), Array(<<Num(1)>>), Object(<<>>), Object(<<Num(1)>>)}

\* Nothing, a number, and what looks like an address.
MCStrayTexts == {<<>>, <<"1">>, <<"a", ":", "1">>, <<":">>}

Scalar(t) == [t |-> t, of |-> "none"]
Of(c, t) == [t |-> c, of |-> t]

MCTypes ==
  {Scalar("int"), Scalar("float"), Scalar("string"), Scalar("null"),
   Of("array", "int"), Of("array", "any"), Of("object", "int")}

MCAddresses ==
  [user : {<<>>, <<"u">>, <<"u", ":", "p">>},
   host : {<<"h">>, <<"h", "1">>},
   port : {<<>>, <<"1">>, <<"1", "2">>},
   vhost : {<<>>, <<"/">>, <<"v">>, <<"v", ":", "1">>, <<"v", ":", "v">>, <<"@">>,
            <<"@", "v", ":", "1">>}]
=============================================================================
