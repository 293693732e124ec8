--------------------- MODULE NicClusterPolicyValidation ---------------------
(***************************************************************************)
(* The field checks the NicClusterPolicy admission webhook runs           *)
(* (api/v1alpha1/validator/nicclusterpolicy_webhook.go), as pure          *)
(* operators from a policy to the errors it appends.                      *)
(*                                                                         *)
(* A policy is a function from the components it declares to their specs; *)
(* an undeclared component is a nil pointer.  Strings the code only       *)
(* matches against a regular expression or a parser (repositories, OFED   *)
(* versions, resource names, prefixes) are model values, and the matcher  *)
(* is the set of those that match.  A pKey GUID, whose digits the range   *)
(* check reads, is kept as its characters: hex digits 0..15, Colon, and   *)
(* NonHex for any other character.  An error is its field path and the   *)
(* reason the code gives; the ErrorList is kept as a set.                 *)
(***************************************************************************)
EXTENDS Naturals, Sequences, FiniteSets, SequencesExt

CONSTANTS
    ParsableRepos,        \* repositories reference.ParseNormalizedNamed accepts
    ValidOfedVersions,    \* versions matching ^(\d+\.\d+-\d+(\.\d+)*)$
    ValidSriovNames,      \* names matching sriovResourceNameRegex
    ValidRdmaNames,       \* names matching rdmaResourceNameRegex
    ValidFQDNs,           \* prefixes matching fqdnRegex
    SupportedContainers,  \* ParseContainerNames of each component's manifests
    LoadedSchemas,        \* schema files InitSchemaValidator found
    GuidGroups,           \* byte groups of a GUID (8 in the code)
    NoResources,          \* a nil ContainerResources slice
    NoUpgradePolicy,      \* a nil OfedUpgradePolicy
    NoPrefix,             \* a resource entry without "resourcePrefix"
    BadJson               \* a Config string json.Unmarshal rejects

Colon == 16
NonHex == 17

TopComponents == {"ofedDriver", "rdmaSharedDevicePlugin", "sriovDevicePlugin",
                  "ibKubernetes", "nvIpam", "nicFeatureDiscovery"}
SecondaryComponents == {"cniPlugins", "ipoib", "multus", "ipamPlugin"}

\* field.NewPath("spec"), or its "secondaryNetwork" child.
ParentPath(c) ==
    IF c \in SecondaryComponents THEN <<"spec", "secondaryNetwork">>
                                 ELSE <<"spec">>

Err(path, why) == [path |-> path, why |-> why]

---------------------------------------------------------------------------
(* validateRepositories and validateRepository.  The OFED driver's        *)
(* repository is reported under the child name the code passes for it.    *)

RepoLabel(c) == IF c = "ofedDriver" THEN "nicFeatureDiscovery" ELSE c

ValidateRepositories(p) ==
    {Err(ParentPath(c) \o <<RepoLabel(c), "repository">>, "repository") :
        c \in {c \in DOMAIN p : p[c].repo \notin ParsableRepos}}

---------------------------------------------------------------------------
(* validateContainerResources, validateResourceRequirements and           *)
(* validateResources.  A quantity is a natural number; requests and       *)
(* limits are functions from resource names to quantities.                *)

ValidateResources(resources, base, resourceType, requests) ==
    {Err(base \o <<resourceType, rn>>, "zero") :
        rn \in {rn \in DOMAIN resources \cap {"cpu", "memory"} :
                    resources[rn] = 0}}
    \cup
    IF resourceType = "Limits"
    THEN {Err(base \o <<"Requests", rn>>, "requestOverLimit") :
            rn \in {rn \in DOMAIN resources \cap DOMAIN requests :
                        resources[rn] < requests[rn]}}
    ELSE {}

NoRequests == [rn \in {} |-> 0]

ValidateResourceRequirements(rs, c) ==
    LET base == ParentPath(c) \o <<c, "containerResources">> IN
    (IF Len(rs) = 0 THEN {Err(base, "empty")} ELSE {})
    \cup
    UNION {ValidateResources(rs[i].requests, base, "Requests", NoRequests)
           \cup ValidateResources(rs[i].limits, base, "Limits", rs[i].requests)
           \cup (IF rs[i].name \in SupportedContainers[c] THEN {}
                 ELSE {Err(base \o <<"name">>, "unsupportedName")})
           : i \in 1..Len(rs)}

\* The components whose spec is a bare *ImageSpec (manager.go gives the
\* CNI plugins state CrSpec *ImageSpec = SecondaryNetwork.CniPlugins).
\* The other spec types are taken to embed ImageSpec.
BareImageSpec == {"cniPlugins"}

\* validateContainerResourcesIfNotNil looks up a field named ImageSpec in
\* the spec struct; an ImageSpec itself has none, so it is never checked.
ReflectsImageSpec(c) == c \notin BareImageSpec

\* Both loops over the component maps, each entry through
\* validateContainerResourcesIfNotNil: a declared spec whose ImageSpec
\* field the reflection finds and whose ContainerResources slice is
\* non-nil is validated.
ValidateContainerResources(p) ==
    UNION {ValidateResourceRequirements(p[c].containerResources, c) :
              c \in {c \in DOMAIN p : /\ ReflectsImageSpec(c)
                                     /\ p[c].containerResources # NoResources}}

---------------------------------------------------------------------------
(* ibKubernetesSpecWrapper.validate, isValidPKeyGUID, isValidPKeyRange.    *)

IsValidPKeyGUID(guid) ==
    /\ Len(guid) = 3 * GuidGroups - 1
    /\ \A i \in 1..Len(guid) :
          IF i % 3 = 0 THEN guid[i] = Colon ELSE guid[i] \in 0..15

\* strings.ReplaceAll(guid, ":", "") then big.Int SetString(_, 16).
HexValue(guid) ==
    FoldLeft(LAMBDA acc, d : 16 * acc + d, 0,
             SelectSeq(guid, LAMBDA ch : ch # Colon))

IsValidPKeyRange(startGUID, endGUID) ==
    HexValue(endGUID) > HexValue(startGUID)

IBKValidate(ibk) ==
    LET fp == <<"spec", "ibKubernetes">> IN
    IF ~IsValidPKeyGUID(ibk.start) \/ ~IsValidPKeyGUID(ibk.end)
    THEN (IF IsValidPKeyGUID(ibk.start) THEN {}
          ELSE {Err(fp \o <<"pKeyGUIDPoolRangeStart">>, "guid")})
         \cup
         (IF IsValidPKeyGUID(ibk.end) THEN {}
          ELSE {Err(fp \o <<"pKeyGUIDPoolRangeEnd">>, "guid")})
    ELSE IF IsValidPKeyRange(ibk.start, ibk.end) THEN {}
    ELSE {Err(fp \o <<"pKeyGUIDPoolRangeEnd">>, "range")}

---------------------------------------------------------------------------
(* ofedDriverSpecWrapper.validateVersion and validateSafeLoad.             *)

ValidateVersion(ofed) ==
    IF ofed.version \in ValidOfedVersions THEN {}
    ELSE {Err(<<"spec", "ofedDriver", "version">>, "version")}

\* Mutant: the safeLoad check tests the wrong flag.
ValidateSafeLoadInverted(ofed) ==
    LET up == ofed.upgradePolicy IN
    IF up = NoUpgradePolicy \/ ~up.safeLoad \/ ~up.autoUpgrade THEN {}
    ELSE {Err(<<"spec", "ofedDriver", "upgradePolicy", "safeLoad">>,
              "forbidden")}

ValidateSafeLoad(ofed) ==
    LET up == ofed.upgradePolicy IN
    IF up = NoUpgradePolicy \/ ~up.safeLoad \/ up.autoUpgrade THEN {}
    ELSE {Err(<<"spec", "ofedDriver", "upgradePolicy", "safeLoad">>,
              "forbidden")}

---------------------------------------------------------------------------
(* The device plugins' Config: BadJson, or the parsed document with       *)
(* whether it satisfies the plugin's schema and its list of resources,    *)
(* each a name, a prefix (or NoPrefix) and, for SR-IOV, whether its       *)
(* selectors satisfy the schema of its deviceType.                        *)

BadPrefix(e) == e.prefix # NoPrefix /\ e.prefix \notin ValidFQDNs

\* validateRdmaSharedDevicePlugin.  A bad name is reported and the loop
\* goes on; a bad prefix is reported and the function returns.
ValidateRdmaSharedDevicePlugin(dp) ==
    LET fp == <<"spec", "rdmaSharedDevicePlugin", "Config">>
        cfg == dp.config
    IN
    IF cfg = BadJson THEN {Err(fp, "json")}
    ELSE IF "rdma_shared_device_plugin" \notin LoadedSchemas
    THEN {Err(fp, "schemaMissing")}
    ELSE IF ~cfg.schemaOk THEN {Err(fp, "schema")}
    ELSE LET l == cfg.entries
             stop == SelectInSeq(l, BadPrefix)
             last == IF stop = 0 THEN Len(l) ELSE stop
         IN  UNION {(IF l[i].name \in ValidRdmaNames THEN {}
                     ELSE {Err(fp, "name")})
                    \cup (IF BadPrefix(l[i]) THEN {Err(fp, "prefix")} ELSE {})
                    : i \in 1..last}

SriovSchemas == {"sriov_network_device_plugin", "accelerator_selector",
                 "net_device", "aux_net_device"}

\* validateResourceNamePrefix fails on a bad name, or on a bad prefix.
SriovEntryRejected(e) == e.name \notin ValidSriovNames \/ BadPrefix(e)

\* validateSriovNetworkDevicePlugin.  The first entry validateResourceNamePrefix
\* rejects ends the function; the selectors of the entries before it are
\* checked against their deviceType's schema.
ValidateSriovNetworkDevicePlugin(dp) ==
    LET fp == <<"spec", "sriovNetworkDevicePlugin", "Config">>
        cfg == dp.config
    IN
    IF cfg = BadJson THEN {Err(fp, "json")}
    ELSE IF ~(SriovSchemas \subseteq LoadedSchemas)
    THEN {Err(fp, "schemaMissing")}
    ELSE IF ~cfg.schemaOk THEN {Err(fp, "schema")}
    ELSE LET l == cfg.entries
             stop == SelectInSeq(l, SriovEntryRejected)
             checked == IF stop = 0 THEN Len(l) ELSE stop - 1
         IN  {Err(fp, "selector") : i \in {i \in 1..checked : ~l[i].selectorsOk}}
             \cup
             IF stop = 0 THEN {}
             ELSE IF l[stop].name \notin ValidSriovNames THEN {Err(fp, "name")}
             ELSE {Err(fp, "prefix")}

---------------------------------------------------------------------------
(* validateNicClusterPolicy: the checks in the order it runs them, each   *)
(* reading the policy held by the validator.                               *)

Checks == <<"repositories", "containerResources", "ibKubernetes",
            "ofedDriver", "rdmaSharedDevicePlugin", "sriovDevicePlugin">>

Declared(p, c) == c \in DOMAIN p

CheckErrors(check, p) ==
    CASE check = "repositories" -> ValidateRepositories(p)
      [] check = "containerResources" -> ValidateContainerResources(p)
      [] check = "ibKubernetes" ->
            IF Declared(p, check) THEN IBKValidate(p[check]) ELSE {}
      [] check = "ofedDriver" ->
            IF Declared(p, check)
            THEN ValidateVersion(p[check]) \cup ValidateSafeLoad(p[check])
            ELSE {}
      [] check = "rdmaSharedDevicePlugin" ->
            IF Declared(p, check)
            THEN ValidateRdmaSharedDevicePlugin(p[check]) ELSE {}
      [] check = "sriovDevicePlugin" ->
            IF Declared(p, check)
            THEN ValidateSriovNetworkDevicePlugin(p[check]) ELSE {}

ValidateNicClusterPolicy(p) ==
    UNION {CheckErrors(Checks[i], p) : i \in 1..Len(Checks)}

---------------------------------------------------------------------------
(* What the comment above validateNicClusterPolicy, and the repository    *)
(* and container-resource checks, require of a policy, stated rule by    *)
(* rule without the order, early returns or error paths of the code.  The *)
(* GUID range is compared digit by digit.                                 *)

RECURSIVE LexGreater(_, _)
LexGreater(a, b) ==
    IF a = <<>> THEN FALSE
    ELSE IF Head(a) # Head(b) THEN Head(a) > Head(b)
    ELSE LexGreater(Tail(a), Tail(b))

Digits(guid) == SelectSeq(guid, LAMBDA ch : ch # Colon)

ResourcesAcceptable(c, rs) ==
    \/ rs = NoResources
    \/ /\ Len(rs) > 0
       /\ \A i \in 1..Len(rs) :
            LET r == rs[i] IN
            /\ \A q \in {r.requests, r.limits} :
                  \A rn \in DOMAIN q \cap {"cpu", "memory"} : q[rn] > 0
            /\ \A rn \in DOMAIN r.limits \cap DOMAIN r.requests :
                  r.requests[rn] <= r.limits[rn]
            /\ r.name \in SupportedContainers[c]

ConfigAcceptable(cfg, schemas, names, withSelectors) ==
    /\ cfg # BadJson
    /\ schemas \subseteq LoadedSchemas
    /\ cfg.schemaOk
    /\ \A i \in 1..Len(cfg.entries) :
          LET e == cfg.entries[i] IN
          /\ e.name \in names
          /\ ~BadPrefix(e)
          /\ withSelectors => e.selectorsOk

DocumentedValid(p) ==
    /\ \A c \in DOMAIN p : p[c].repo \in ParsableRepos
    /\ \A c \in DOMAIN p : ResourcesAcceptable(c, p[c].containerResources)
    /\ Declared(p, "ibKubernetes") =>
          LET ibk == p["ibKubernetes"] IN
          /\ IsValidPKeyGUID(ibk.start) /\ IsValidPKeyGUID(ibk.end)
          /\ LexGreater(Digits(ibk.end), Digits(ibk.start))
    /\ Declared(p, "ofedDriver") =>
          LET o == p["ofedDriver"] IN
          /\ o.version \in ValidOfedVersions
          /\ o.upgradePolicy # NoUpgradePolicy /\ o.upgradePolicy.safeLoad
                 => o.upgradePolicy.autoUpgrade
    /\ Declared(p, "rdmaSharedDevicePlugin") =>
          ConfigAcceptable(p["rdmaSharedDevicePlugin"].config,
                           {"rdma_shared_device_plugin"}, ValidRdmaNames, FALSE)
    /\ Declared(p, "sriovDevicePlugin") =>
          ConfigAcceptable(p["sriovDevicePlugin"].config,
                           SriovSchemas, ValidSriovNames, TRUE)

=============================================================================
