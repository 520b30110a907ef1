----------------------------- MODULE MCBlockBytes ------------------------------
(***************************************************************************)
(* Instances of BlockBytes for TLC, in base 6: a length takes a varint of  *)
(* 3 bytes at 3, of 5 at 36 and of 9 at 1296; a height takes a digit more  *)
(* at 3, 18 and 108; flags of 2, 6 and 36 bytes take another push.         *)
(***************************************************************************)
EXTENDS BlockBytes

In_(prev, script, witness) ==
  [prev |-> prev, index |-> 1, script |-> script, sequence |-> 5, witness |-> witness]
Out_(value, script) == [value |-> value, script |-> script]
Tx_(version, ins, outs) == [version |-> version, lock |-> 3, ins |-> ins, outs |-> outs]

\* No witness; one of two inputs with witnesses, empty items among them, and
\* a negative version; scripts and items at each length of a varint.
Plain == Tx_(2, <<In_(<<1, 2>>, <<3>>, <<>>)>>, <<Out_(9, <<>>)>>)
Half == Tx_(-1, <<In_(<<0, 0>>, Zeros(3), <<>>), In_(<<0, 1>>, <<>>, <<<<2>>, <<>>>>)>>,
            <<Out_(7, <<1, 1>>), Out_(300, <<>>)>>)
Items == Tx_(1, <<In_(<<3, 3>>, <<>>, <<Zeros(3), Zeros(36)>>)>>, <<Out_(0, Zeros(36))>>)
Long == Tx_(1, <<In_(<<3, 0>>, Zeros(36), <<>>)>>, <<Out_(1, Zeros(1296))>>)

MCProposed == {<<>>, <<Half, Plain>>, <<Plain, Items, Half>>, <<Long>>}
MCPayout == <<5, 4, 0>>
=============================================================================
