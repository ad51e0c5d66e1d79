---------------------------- MODULE MCConfigStore ----------------------------
(* ConfigStore for TLC: one profile and one saved push; two operations in  *)
(* one process and one in another.                                         *)
EXTENDS ConfigStore, TLC
CONSTANTS p1, p2, t1, t2, t3, kinsta, whm, s1, s2, r1, r2, site, staging

MCProcOf == (t1 :> p1) @@ (t2 :> p1) @@ (t3 :> p2)

ProfileOp(kind, provider, cred, secret, force) ==
  [kind |-> kind, name |-> site, provider |-> provider, cred |-> cred,
   secret |-> secret, force |-> force, route |-> None]
PushOp(kind, route) ==
  [kind |-> kind, name |-> staging, provider |-> kinsta, cred |-> "env",
   secret |-> s1, force |-> TRUE, route |-> route]

CliOps == {ProfileOp("cli_upsert", kinsta, "secret", s1, TRUE),
           ProfileOp("cli_upsert", kinsta, "secret", s2, TRUE),
           ProfileOp("cli_upsert", whm, "env", s1, TRUE),
           ProfileOp("cli_remove", kinsta, "env", s1, TRUE)}
DashOps == {ProfileOp("dash_upsert", kinsta, "secret", s2, TRUE),
            ProfileOp("dash_upsert", whm, "keep", s1, TRUE),
            ProfileOp("dash_remove", kinsta, "env", s1, TRUE)}
MCNames == {site}
MCPushNames == {staging}
MCProviders == {kinsta, whm}
MixedOps ==
  {ProfileOp("cli_upsert", kinsta, "secret", s1, TRUE), ProfileOp("cli_remove", kinsta, "env", s1, TRUE),
   ProfileOp("dash_upsert", kinsta, "secret", s2, TRUE),
   ProfileOp("dash_remove", kinsta, "env", s1, TRUE),
   PushOp("push_upsert", r1), PushOp("push_remove", None), PushOp("push_apply", r1)}
AllOps == CliOps \cup DashOps
AllReplaceFaults == {"refused", "removed", "written"}
=============================================================================
