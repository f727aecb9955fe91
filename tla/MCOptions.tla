----------------------------- MODULE MCOptions -----------------------------
(***************************************************************************)
(* Instances of Options for TLC: up to two options on the command line and *)
(* up to two lines in one or two of the files.                             *)
(***************************************************************************)
EXTENDS Options

Set(field, value)   == [kind |-> "set", field |-> field, value |-> value]
Image(output, file) == [kind |-> "image", output |-> output, path |-> file]
Mode(kind, m)       == [kind |-> kind, mode |-> m]
Other(kind)         == [kind |-> kind]

Common(value, image) ==
  {Set("inside", value), Image("DP-1", image), Image("*", image),
   Image("DP-1", "missing"), Mode("line", "INSIDE"), Mode("line", "RING"),
   Mode("scaling", "TILE"), Mode("scaling", "nonsense")}

OnCli == Common("c", "c.png")
           \cup {Other("config"), Other("version"), Other("bad")}
InFile == Common("f", "f.png")
            \cup {Set("line", "f"), Other("comment"), Other("bad"), Other("version")}

UpTo(n, S) == UNION {[1 .. k -> S] : k \in 0 .. n}

SomeOptions == OnCli \cup InFile \cup {Set("inside", "g")}

SomeCommandLines == UpTo(2, OnCli)
Contents == UpTo(2, InFile)

\* One file with anything in it, perhaps with another one behind it.
SomeFileSystems ==
  {[p \in {"given", "home", "xdg", "sysconf"} |->
      IF p = one THEN lines ELSE IF p = two THEN <<Set("inside", "g")>>
      ELSE NoFile] :
    one \in {"given", "home", "xdg"}, two \in {"home", "xdg", "sysconf", "none"},
    lines \in Contents}

=============================================================================
