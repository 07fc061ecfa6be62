------------------------------ MODULE MCCooldown ------------------------------
(* Small instances of Cooldown for TLC: one user in a guild and in a direct     *)
(* message, another with fewer permissions, and an interaction of which Discord *)
(* says nothing, against four policies.                                         *)
EXTENDS Cooldown, TLC

CONSTANTS e1, e2, e3, e4, alice, bob, guild, dm, ban, kick, send

Told(context, user, memberUser, memberPermissions, appPermissions) ==
  [context |-> context, user |-> user, memberUser |-> memberUser,
   memberPermissions |-> memberPermissions, appPermissions |-> appPermissions]

MCInteraction ==
  (e1 :> Told(guild, Absent, alice, {ban, kick}, {send}))
    @@ (e2 :> Told(dm, alice, Absent, Absent, {send}))
    @@ (e3 :> Told(guild, Absent, bob, {ban}, {send}))
    @@ (e4 :> Told(Absent, Absent, Absent, Absent, Absent))

Policy(contexts, member, bot, checks, cooldown) ==
  [contexts |-> contexts, memberPermissions |-> member, botPermissions |-> bot,
   checks |-> checks, cooldown |-> cooldown]

MCPolicies ==
  {Policy({}, Absent, Absent, 2, 2),
   Policy({guild, dm}, Absent, {send}, 1, 3),
   Policy({}, {ban, kick}, {}, 0, 1),
   Policy({}, Absent, {send}, 1, Absent)}
=============================================================================
