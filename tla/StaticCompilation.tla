------------------------- MODULE StaticCompilation -------------------------
(***************************************************************************)
(* The compilation of a design without tools: what it is refused for, in   *)
(* the order the phases run, or everything that is made of it.             *)
(***************************************************************************)
EXTENDS SimulationLowering, KicadProject

Refuse(codes) == [value |-> 0, error |-> "refused", codes |-> codes]
ArtifactsOf(d) ==
    [schematic |-> Schematic(d), board |-> BoardOf(d), libraries |-> LibraryFiles(d),
     identities |-> Identities(d), netlist |-> LowerNetlist(d, NoAnalysis)]

\* compile_static_validated: of a design that is valid.
StaticCodes(d) ==
    IF d.requests # <<>> THEN {"CC-AUTOROUTE-PHASE-001"} ELSE KicadDiagnostics(d)
CompileStatic(d) ==
    LET Made(codes) == IF codes = {} THEN Ok(ArtifactsOf(d)) ELSE Refuse(codes)
    IN  Made(StaticCodes(d))

\* The entry point for designs that declare no simulation.
CompileWith(d, inputs) ==
    IF inputs.codes # {} THEN Refuse(inputs.codes)
    ELSE IF inputs.bundles # <<>> THEN Refuse({"CC-SIM-PHASE-001"})
    ELSE CompileStatic(d)
Compile(d) == CompileWith(d, LowerInputs(d))

\* What the checked compilation of a design without routing starts from.
Prepared(static, inputs) ==
    IF inputs.codes # {} THEN Refuse(inputs.codes)
    ELSE IF ~IsOk(static) THEN static
    ELSE Ok([artifacts |-> static.value, bundles |-> inputs.bundles])
PrepareChecked(d) == Prepared(CompileStatic(d), LowerInputs(d))
=============================================================================
