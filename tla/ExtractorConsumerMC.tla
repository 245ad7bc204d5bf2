------------------------ MODULE ExtractorConsumerMC ------------------------
(***************************************************************************)
(* Instances of ExtractorConsumer for TLC.                                 *)
(***************************************************************************)
EXTENDS ExtractorConsumer, TLC

CONSTANTS j1, sA

OneJob == j1 :> sA

(* Texts whose last five bytes begin inside a line, or at one; that have   *)
(* more lines, or longer ones, than a request may hold.                    *)
Texts ==
  {<<"a", "a", "nl", "nl", "nl", "b">>,
   <<"nl", "b", "nl", "c", "nl", "nl">>,
   <<"b", "nl", "c", "nl", "c">>,
   <<"b", "nl", "c", "c">>}

Replacements == {<<"nl", "d", "nl", "nl", "d">>}

Symmetry == Permutations(Consumers)

=============================================================================
