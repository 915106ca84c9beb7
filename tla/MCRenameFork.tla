--------------------------- MODULE MCRenameFork ---------------------------
(***************************************************************************)
(* The names of this repository, and four requests: the example of the    *)
(* script's own documentation, whose command, resource and distribution    *)
(* names are one; five names apart; names that extend the old ones; and a  *)
(* fork that spells its command like its package.                          *)
(***************************************************************************)
EXTENDS RenameFork

Named(dist, cli, package, env, resource) ==
    [dist |-> dist, cli |-> cli, package |-> package, env |-> env, resource |-> resource]

ThisRepository ==
    Named(<<"dist">>, <<"package">>, <<"package">>, <<"STEM">>, <<"h4-svc">>)

SmallRequests ==
    {Named(<<"acme-dq">>, <<"acme-dq">>, <<"acme_dq">>, <<"ACME">>, <<"acme-dq">>),
     Named(<<"bank-dist">>, <<"bank-cli">>, <<"bank_dq">>, <<"BANK">>, <<"bank-dq">>),
     Named(<<"dist", "bank">>, <<"package">>, <<"package", "bank">>, <<"STEM", "BANK">>,
           <<"h4-svc", "bank">>),
     Named(<<"dq-dist">>, <<"dq">>, <<"dq">>, <<"DQ">>, <<"svc">>)}
=============================================================================
