---------------------------- MODULE MCCheckPool -----------------------------
(* Two runner groups over two packages and one program group: four jobs,   *)
(* so that two workers compete, a result blocks on a full channel and a       *)
(* done message overtakes nothing.                                         *)
EXTENDS CheckPool

MCPackageGroups == <<"srp-package", "isp-package">>
MCProgramGroups == <<"ocp-program">>
=============================================================================
