-------------------------- MODULE MCProfilePreparation -------------------------
(***************************************************************************)
(* ProfilePreparation with three runs and two preparations.  Stacks are of*)
(* two lines: a thread alone, one with a frame that recurs, or one with a  *)
(* frame of the kernel that has no symbol.  The first line may be without  *)
(* frames, the second without samples, and both together may count more    *)
(* than MaxCount.                                                          *)
(***************************************************************************)
EXTENDS ProfilePreparation

MCStacks == {<<"thread">>, <<"thread", "send", "send">>, <<"thread", "send", "0x0_[k]">>}

MCFoldings ==
    {<<[frames |-> first, count |-> 2], [frames |-> second, count |-> count]>> :
        first \in MCStacks \union {<< >>}, second \in MCStacks, count \in {0, 2, 3}}
===============================================================================
