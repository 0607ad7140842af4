------------------------------- MODULE MCData -------------------------------
(***************************************************************************)
(* DataFormats with a few alphabets and samples.                           *)
(***************************************************************************)
EXTENDS DataFormats

\* Files with a space among letters, comments, an escaped # and empty lines,
\* without a space, and with a line twice.
MCFiles ==
  {<< >>, <<" ", "a", "# comment", "b">>, <<"a", "\\#", " ", "">>, <<"#", "a", "e2", " ">>,
   <<"a", "b">>, <<"a", " ", "a">>}

\* e2 stands for a letter of two bytes.
MCSize ==
  [line \in UNION {{f[i] : i \in DOMAIN f} : f \in MCFiles} |->
     IF line = "e2" THEN 2 ELSE IF line = "" THEN 0 ELSE 1]

MCGarbage == {0, 1, NoSpace}

\* Nothing to read, a sample without transcript, one with both, one after which
\* offsets take more than a byte, and one too long for INT_SIZE.
MCSamples ==
  {[audio |-> << >>, transcript |-> << >>],
   [audio |-> <<7>>, transcript |-> << >>],
   [audio |-> <<1, 2>>, transcript |-> <<65>>],
   [audio |-> [i \in 1 .. 240 |-> i], transcript |-> <<66, 67>>],
   [audio |-> [i \in 1 .. 260 |-> i % 256], transcript |-> <<66>>]}
=============================================================================
