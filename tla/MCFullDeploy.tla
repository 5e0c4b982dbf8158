---------------------------- MODULE MCFullDeploy ----------------------------
(* Instances of FullDeploy for TLC.                                        *)
EXTENDS FullDeploy

MCComponents == AllComponents
MCParts      == AllParts
=============================================================================
