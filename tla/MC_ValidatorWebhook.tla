------------------------- MODULE MC_ValidatorWebhook -------------------------
(***************************************************************************)
(* Policies built from a few options per component, chosen so that every  *)
(* branch of every check is taken: each option is one of the cases of the *)
(* validator's code (a nil pointer, a failing parse, an early return ...).*)
(* GUIDs have two byte groups.                                             *)
(***************************************************************************)
EXTENDS ValidatorWebhook, TLC

CONSTANTS goodRepo, badRepo, goodVer, badVer, goodName, badName,
          goodFqdn, badFqdn, goodCtr, badCtr, Absent

MCSupportedContainers ==
    [c \in TopComponents \cup SecondaryComponents |-> {goodCtr}]
MCLoadedSchemas == {"rdma_shared_device_plugin"} \cup SriovSchemas

Opt(c, v) == IF v = Absent THEN EmptyPolicy ELSE (c :> v)

G(a, b, c, d) == <<a, b, Colon, c, d>>

Res(name, req, lim) == <<[name |-> name, requests |-> req, limits |-> lim]>>
Comp(repo) == [repo |-> repo, containerResources |-> NoResources]

OfedOpts ==
    {Absent,
     [repo |-> goodRepo, containerResources |-> NoResources,
      version |-> goodVer, upgradePolicy |-> NoUpgradePolicy],
     [repo |-> goodRepo, containerResources |-> NoResources,
      version |-> badVer, upgradePolicy |-> NoUpgradePolicy],
     [repo |-> goodRepo, containerResources |-> NoResources,
      version |-> goodVer,
      upgradePolicy |-> [safeLoad |-> TRUE, autoUpgrade |-> FALSE]],
     [repo |-> goodRepo, containerResources |-> NoResources,
      version |-> goodVer,
      upgradePolicy |-> [safeLoad |-> TRUE, autoUpgrade |-> TRUE]]}

\* nvIpam with each shape of containerResources, or the CNI plugins with a
\* repository that does not parse or with acceptable containerResources.
OtherOpts ==
    {Opt("nvIpam", [Comp(goodRepo) EXCEPT !.containerResources = rs]) :
        rs \in {NoResources, <<>>,
                Res(goodCtr, "cpu" :> 0, NoRequests),
                Res(goodCtr, "cpu" :> 2, "cpu" :> 1 @@ "memory" :> 1),
                Res(badCtr, NoRequests, NoRequests),
                Res(goodCtr, "cpu" :> 1, "cpu" :> 2)}}
    \cup {Opt("cniPlugins", Comp(badRepo)),
           Opt("cniPlugins", [Comp(goodRepo) EXCEPT !.containerResources =
                                 Res(goodCtr, "cpu" :> 1, "cpu" :> 2)])}

IbkOpts ==
    {Absent} \cup
    {[repo |-> goodRepo, containerResources |-> NoResources,
      start |-> s, end |-> e] :
        <<s, e>> \in {<<G(0, 0, 0, 1), G(0, 1, 0, 0)>>,
                      <<G(0, 1, 0, 0), G(0, 1, 0, 0)>>,
                      <<G(1, 0, 0, 0), G(0, 15, 15, 15)>>,
                      <<G(0, NonHex, 0, 1), G(0, 1, 0, 0)>>,
                      <<<<0, 0, 0, 1>>, <<0, 1, 0>>>>}}

Entry(n, pre, sel) == [name |-> n, prefix |-> pre, selectorsOk |-> sel]
Cfg(ok, l) == [schemaOk |-> ok, entries |-> l]

DpOpts(n) ==
    {Absent} \cup
    {[repo |-> goodRepo, containerResources |-> NoResources, config |-> cfg] :
        cfg \in {BadJson, Cfg(FALSE, <<>>),
                 Cfg(TRUE, <<Entry(goodName, goodFqdn, TRUE)>>),
                 Cfg(TRUE, <<Entry(goodName, NoPrefix, FALSE),
                             Entry(badName, NoPrefix, TRUE)>>),
                 Cfg(TRUE, <<Entry(badName, NoPrefix, TRUE),
                             Entry(goodName, badFqdn, FALSE)>>)}}

MCPolicies ==
    {Opt("ofedDriver", o) @@ other @@ Opt("ibKubernetes", i)
       @@ Opt("rdmaSharedDevicePlugin", rd) @@ Opt("sriovDevicePlugin", sr) :
        <<o, other, i, rd, sr>> \in
            OfedOpts \X OtherOpts \X IbkOpts \X DpOpts(1) \X DpOpts(2)}

\* Two requests: one valid object, one carrying an SR-IOV config with a
\* bad resource name.
MCRacePolicies ==
    {Opt("ofedDriver", o) @@ Opt("sriovDevicePlugin", sr) :
        <<o, sr>> \in
            {<<[repo |-> goodRepo, containerResources |-> NoResources,
                version |-> goodVer, upgradePolicy |-> NoUpgradePolicy],
               Absent>>,
             <<Absent,
               [repo |-> goodRepo, containerResources |-> NoResources,
                config |-> Cfg(TRUE, <<Entry(badName, NoPrefix, TRUE)>>)]>>}}

\* One object whose CNI plugins declare a container the operator does not
\* know.
MCBadCniResources ==
    {Opt("cniPlugins", [Comp(goodRepo) EXCEPT !.containerResources =
                           Res(badCtr, NoRequests, NoRequests)])}

\* One object whose OFED driver repository does not parse.
MCBadOfedRepo ==
    {Opt("ofedDriver", [repo |-> badRepo, containerResources |-> NoResources,
                        version |-> goodVer, upgradePolicy |-> NoUpgradePolicy])}
=============================================================================
