----------------------------- MODULE MCFileStore -----------------------------
(***************************************************************************)
(* Two lists, one with brackets, a quote and an escape in its string; two  *)
(* savers; the longer text takes two buffers.                              *)
(***************************************************************************)
EXTENDS FileStore

MCCharacters == {"x", "y", LeftBrace, RightBrace, Quote, Escape, Newline}

MCValues ==
  {[date |-> <<"x">>, triggers |-> <<>>],
   [date |-> <<"y">>, triggers |-> <<<<RightBrace, Quote, Escape>>, <<LeftBrace, Newline>>>>]}
=============================================================================
