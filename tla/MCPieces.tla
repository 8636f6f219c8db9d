------------------------------ MODULE MCPieces ------------------------------
(***************************************************************************)
(* The piece vocabulary and the constants of run_clang_tidy.py in piece    *)
(* form, for the model-checking modules of the Filter module.             *)
(***************************************************************************)
EXTENDS Sequences

(* str.lower() on the pieces that have capitals.                           *)
MCLowerPiece ==
  [p \in {"Build", "BUILD", "Out", "Dist", "/Fp", "/FP", "/Yu", "/Yc", "C"} |->
     CASE p \in {"Build", "BUILD"} -> "build"
       [] p = "Out"                -> "out"
       [] p = "Dist"               -> "dist"
       [] p \in {"/Fp", "/FP"}     -> "/fp"
       [] p = "/Yu"                -> "/yu"
       [] p = "/Yc"                -> "/yc"
       [] p = "C"                  -> "c"]

(* PROJECT_ROOT = /home/proj                                               *)
MCProjectRoot == <<"/", "home", "/", "proj">>
MCOutsideRoot == <<"/", "tmp">>

(* BUILD_DIR_PATTERNS, line 40-45                                          *)
MCBuildDirPatterns ==
  { <<"build">>, <<"Build">>, <<"BUILD">>,
    <<"cmake-", "build">>, <<"cmake-", "build", "-debug">>,
    <<"cmake-", "build", "-release">>,
    <<"out">>, <<"Out">>, <<"build", "-output">>, <<"_", "build">>,
    <<"dist">>, <<"bin">>, <<"lib">>, <<"obj">> }

(* PCH_ARGS, line 48: "/FPC" is <<"/FP", "C">>, so that it starts with   *)
(* "/fp" once lowered, as the string does.                                 *)
MCPchArgs == { <<"/Fp">>, <<"/Yu">>, <<"/Yc">>, <<"/FP", "C">> }

(* Path segments: "library" holds "lib", "Dist" is a capitalised build     *)
(* directory name.                                                         *)
MCSegments == { <<"src">>, <<"gen">>, <<"lib", "rary">>, <<"Dist">>, <<"a.cpp">> }

(* .gitignore lines: an anchored rule, a directory rule, a plain rule, a   *)
(* comment and the line "/", which get_gitignore_patterns drops.           *)
MCIgnoreLines == { <<"/", "src">>, <<"gen", "/">>, <<"a.cpp">>,
                   <<"#", "gen">>, <<"/">> }

(* .git/info/exclude lines: a directory rule.                             *)
MCExcludeLines == { <<"gen", "/">> }

(* Compiler arguments: the MSVC PCH options as CMake writes them, with the *)
(* value attached (/FpX.pch, /Yustdafx.h); /Fp=X.pch; a bare /Fp whose     *)
(* value would follow; /fp:fast, a floating-point option; -c; the source.  *)
PchFile   == <<"/Fp", "X.pch">>
PchUse    == <<"/Yu", "stdafx.h">>
PchEq     == <<"/Fp", "=", "X.pch">>
PchBare   == <<"/Fp">>
FpFast    == <<"/Fp", ":fast">>
MCArgShapes    == {PchFile, PchUse, PchEq, PchBare, FpFast, <<"-c">>, <<"a.cpp">>}
MCMsvcArgShapes == {PchFile, PchUse, <<"-c">>, <<"a.cpp">>}
MCPchOptions   == {PchFile, PchUse}

=============================================================================
