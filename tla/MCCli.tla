------------------------------- MODULE MCCli --------------------------------
(***************************************************************************)
(* Small instances of Cli: two processes, one or two files, the command    *)
(* lines whose steps differ.                                               *)
(***************************************************************************)
EXTENDS Cli

CONSTANTS a, b, v1, v2

MCNames == {a, b}
MCVersions == {v1, v2}

Line(d, s, k, f, z) == [decompress |-> d, sink |-> s, keep |-> k, force |-> f, size |-> z]

MCOptions ==
  {Line(FALSE, "File", FALSE, FALSE, "Valid"), Line(FALSE, "File", TRUE, TRUE, "Valid"),
   Line(FALSE, "File", FALSE, TRUE, "Valid"), Line(FALSE, "Stdout", FALSE, FALSE, "Zero"),
   Line(TRUE, "Test", FALSE, FALSE, "Unparsable"), Line(FALSE, "Svg", FALSE, FALSE, "Valid"),
   Line(FALSE, "Show", FALSE, FALSE, "Valid")}

\* b is the name of the picture of a.
MCSvgOf == [path \in {<<a, "plain">>} |-> b]

MCArgLists == {<<<<a, "plain">>>>, <<<<a, "pltz">>>>, <<<<b, "plain">>, <<a, "plain">>>>}

File(form, v) == [form |-> form, of |-> v]

\* No file, a file, its archive, both, and an archive of an older version.
MCDisks ==
  {[x \in Paths |-> IF x = <<a, "plain">> THEN d[1][1] ELSE IF x = <<a, "pltz">> THEN d[1][2]
                    ELSE IF x = <<b, "plain">> THEN d[2] ELSE Absent] :
     d \in {<<Absent, Absent>>, <<File("Plain", v1), Absent>>, <<Absent, File("Archive", v1)>>,
            <<File("Plain", v1), File("Archive", v1)>>,
            <<File("Plain", v2), File("Archive", v1)>>} \X {File("Plain", v1), Absent}}
=============================================================================
