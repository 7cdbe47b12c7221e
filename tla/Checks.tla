------------------------------- MODULE Checks -------------------------------
(* The checks of one run over a loaded program, put together: the package  *)
(* groups of SOLID-S and SOLID-I are jobs of the pool and go on side by    *)
(* side (run.go:280), here for one package each; the program groups of     *)
(* SOLID-O and SOLID-D run one after the other when the pool is done       *)
(* (run.go:103 and :338).                                                  *)
EXTENDS InterfaceUse, ConstructorRoles, Responsibilities, Dispatch, Dependencies

CONSTANT Programs  \* [planned, pkg, ctor, source, code, layers, unit]: what may
                   \* be loaded, and the groups of checks that are planned for it

VARIABLE planned   \* groups of the execution plan

vars == <<planned, flowVars, ctorVars, packageVars, dispatchVars, layerVars, unitVars>>

Init ==
  /\ \E p \in Programs :
       /\ planned = p.planned
       /\ pkg = p.pkg /\ ctor = p.ctor /\ source = p.source
       /\ code = p.code /\ layers = p.layers /\ unit = p.unit
  /\ FlowInit /\ ConstructorInit /\ PackageInit /\ DispatchInit /\ LayerInit

PoolDone ==
  /\ "isp-package" \in planned => FlowDone /\ ConstructorDone
  /\ "srp-package" \in planned => PackageDone
DispatchGroupDone == "ocp-program" \in planned => DispatchDone

SearchFlows ==
  /\ "isp-package" \in planned
  /\ FlowNext
  /\ UNCHANGED <<planned, ctorVars, packageVars, dispatchVars, layerVars, unitVars>>
FollowAliases ==
  /\ "isp-package" \in planned
  /\ ConstructorNext
  /\ UNCHANGED <<planned, flowVars, packageVars, dispatchVars, layerVars, unitVars>>
ExaminePackage ==
  /\ "srp-package" \in planned
  /\ PackageNext
  /\ UNCHANGED <<planned, flowVars, ctorVars, dispatchVars, layerVars, unitVars>>
RunDispatchGroup ==
  /\ "ocp-program" \in planned /\ PoolDone
  /\ DispatchNext
  /\ UNCHANGED <<planned, flowVars, ctorVars, packageVars, layerVars, unitVars>>
RunLayerGroup ==
  /\ "dip-program" \in planned /\ PoolDone /\ DispatchGroupDone
  /\ LayerNext
  /\ UNCHANGED <<planned, flowVars, ctorVars, packageVars, dispatchVars, unitVars>>

Next ==
  SearchFlows \/ FollowAliases \/ ExaminePackage \/ RunDispatchGroup \/ RunLayerGroup

Spec == Init /\ [][Next]_vars

-----------------------------------------------------------------------------
(* Properties. *)

\* registry.go:153 (`conservative`), docs/checks/SOLID-D/concrete-dependency.md
\* and docs/checks/SOLID-S/mixed-import-clusters.md: these checks have a
\* conservative syntax fallback, and stay in the plan of a package without
\* types.  A field that points to a service of another package, and methods
\* that split into clusters by the imports they name, can be told from syntax;
\* the checks report neither (dip.go:374, srp_metrics.go:46).
ConservativeChecksReport ==
  PackageDone =>
    /\ ~unit.typed /\ ~unit.root /\ ~SerializedDataCarrierStruct =>
         \A d \in unit.fields :
           /\ d.pointer /\ d.type = "service" /\ ~d.allowed
           /\ ~BridgeFieldForwarded(d) /\ ~ConcreteFieldIsExposed(d)
           => d \in FieldConcreteIssues
    /\ ~source.typed /\ Enabled({"mixed-import-clusters"}) =>
         \A t \in source.structs :
           MixedImportClusters(t) => Smell("mixed-import-clusters", t.at) \in smells

=============================================================================
