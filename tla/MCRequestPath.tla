---------------------------- MODULE MCRequestPath ----------------------------
(***************************************************************************)
(* Instances of RequestPath for TLC.                                       *)
(***************************************************************************)
EXTENDS RequestPath

MCDirectives ==
    {NoDirective,
     [NoDirective EXCEPT !.localOnly = TRUE],
     [NoDirective EXCEPT !.blockedOnly = TRUE],
     [NoDirective EXCEPT !.types = {"inspect"}]}
=============================================================================
