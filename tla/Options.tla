------------------------------ MODULE Options ------------------------------
(***************************************************************************)
(* How swaylock arrives at its settings before it connects: the command    *)
(* line is scanned for --config, the configuration file is read line by    *)
(* line, and the command line is parsed again, this time with effect.  An  *)
(* option is a record:                                                     *)
(*                                                                         *)
(*   set      assigns a value: colours, sizes, the font, and the flags     *)
(*   scaling  --scaling, --tiling                                          *)
(*   line     --line-uses-inside, --line-uses-ring                         *)
(*   image    --image, for one output or for all of them                   *)
(*   config   --config                                                     *)
(*   version  --version                                                    *)
(*   bad      --help, an unknown option, a missing argument                *)
(*   comment  an empty line of the file or one that begins with #          *)
(***************************************************************************)
EXTENDS Naturals, Sequences, SequencesExt

CONSTANTS
  Option,         \* what may be written, in the file or on the command line
  ArgumentLists,  \* command lines, sequences of options
  FileSystems,    \* for each path the lines of the file, or NoFile
  NoFile,
  Outputs,        \* names of outputs
  Broken,         \* paths of images that cannot be loaded
  NoImage

Fields == {"line", "inside", "ring", "other"}
Modes  == {"FILL", "TILE", "SOLID_COLOR"}      \* STRETCH, FIT, CENTER as FILL
AnyOutput == "*"                               \* output_name is NULL

\* config_paths, in order.
Paths == <<"home", "xdg", "sysconf">>

ASSUME OptionsAssumption ==
  /\ ArgumentLists \subseteq Seq(Option)
  /\ FileSystems \subseteq
       [{"given", "home", "xdg", "sysconf"} -> {NoFile} \cup Seq(Option)]
  /\ NoFile \notin {"given", "home", "xdg", "sysconf"}
  /\ AnyOutput \notin Outputs
  /\ \A o \in Option : /\ o.kind = "set" => o.field \in Fields
                       /\ o.kind = "image" => o.path # NoImage

VARIABLES
  phase,      \* "scan", "file", "cli", "done" or "exited"
  cli, files, \* what the user wrote
  path,       \* the configuration file: one of Paths, "given" or NoFile
  next,       \* index of the next option of the phase
  args,       \* value of each field
  mode,       \* args.mode
  line_mode,
  images      \* state.images, the newest first

optionVars == <<phase, cli, files, path, next, args, mode, line_mode, images>>

set_default_colors == [f \in Fields |-> "default"]

OptionsInit ==
  /\ cli \in ArgumentLists
  /\ files \in FileSystems
  /\ phase = "scan"
  /\ path = NoFile
  /\ next = 1
  /\ args = set_default_colors
  /\ mode = "FILL"
  /\ line_mode = "LINE"
  /\ images = <<>>

settings == <<args, mode, line_mode, images>>
written  == <<cli, files>>

-----------------------------------------------------------------------------
\* parse_options() without a state: only --config, --version and errors.
ScanOption ==
  /\ phase = "scan" /\ next <= Len(cli)
  /\ LET o == cli[next] IN
     /\ phase' = IF o.kind \in {"bad", "version"} THEN "exited" ELSE "scan"
     /\ path' = IF o.kind = "config" THEN "given" ELSE path
  /\ next' = next + 1
  /\ UNCHANGED <<written, settings>>

\* Mutant: every candidate is tried, and the last one stays.
get_config_path_last ==
  LET found == SelectLastInSeq(Paths, LAMBDA p : files[p] # NoFile)
  IN  IF found = 0 THEN NoFile ELSE Paths[found]

get_config_path ==
  LET found == SelectInSeq(Paths, LAMBDA p : files[p] # NoFile)
  IN  IF found = 0 THEN NoFile ELSE Paths[found]

OpenConfig ==
  /\ phase = "scan" /\ next > Len(cli)
  /\ path' = IF path = "given" THEN path ELSE get_config_path
  /\ phase' = "file"
  /\ next' = 1
  /\ UNCHANGED <<written, settings>>

\* load_image(): the image of the same output goes before the new one is
\* loaded, and the new one is put at the head of the list.
load_image(o) ==
  LET kept == RemoveFirstMatch(images, LAMBDA i : i.output = o.output)
  IN  images' = IF o.path \in Broken THEN kept
                ELSE Cons([output |-> o.output, path |-> o.path], kept)

\* parse_options() returns 1.
Rejected(o) == o.kind = "bad" \/ (o.kind = "scaling" /\ o.mode \notin Modes)

\* The colours, sizes and flags, each a case of the switch.
Assign(o) ==
  args' = IF o.kind = "set" THEN [args EXCEPT ![o.field] = o.value] ELSE args

\* parse_options() with a state: one option takes effect.
Apply(o) ==
  /\ Assign(o)
  /\ mode' = IF o.kind = "scaling"
             THEN IF o.mode \in Modes THEN o.mode ELSE "INVALID"
             ELSE mode
  /\ line_mode' = IF o.kind = "line" THEN o.mode ELSE line_mode
  /\ IF o.kind = "image" THEN load_image(o) ELSE UNCHANGED images

\* The lines of the file; swaylock runs without one that cannot be opened.
Lines == IF path = NoFile THEN <<>>
         ELSE IF files[path] = NoFile THEN <<>> ELSE files[path]

\* A line of the file.  An option that is rejected ends the file and
\* nothing else: load_config() returns 0.
ConfigLine ==
  /\ phase = "file" /\ next <= Len(Lines)
  /\ LET o == Lines[next] IN
     /\ Apply(o)
     /\ phase' = IF o.kind = "version" THEN "exited"
                 ELSE IF Rejected(o) THEN "cli" ELSE "file"
     /\ next' = IF Rejected(o) THEN 1 ELSE next + 1
  /\ UNCHANGED <<written, path>>

ConfigEnd ==
  /\ phase = "file" /\ next > Len(Lines)
  /\ phase' = "cli"
  /\ next' = 1
  /\ UNCHANGED <<written, path, settings>>

CliOption ==
  /\ phase = "cli" /\ next <= Len(cli)
  /\ Apply(cli[next])
  /\ phase' = IF Rejected(cli[next]) THEN "exited" ELSE "cli"
  /\ next' = next + 1
  /\ UNCHANGED <<written, path>>

UseLineMode ==
  /\ phase = "cli" /\ next > Len(cli)
  /\ args' = CASE line_mode = "INSIDE" -> [args EXCEPT !["line"] = args["inside"]]
               [] line_mode = "RING"   -> [args EXCEPT !["line"] = args["ring"]]
               [] OTHER                -> args
  /\ phase' = "done"
  /\ UNCHANGED <<written, path, next, mode, line_mode, images>>

OptionsNext ==
  \/ ScanOption \/ OpenConfig \/ ConfigLine \/ ConfigEnd \/ CliOption
  \/ UseLineMode

OptionsSpec == OptionsInit /\ [][OptionsNext]_optionVars

-----------------------------------------------------------------------------
\* select_image(): the first image of the output, else the last of those
\* for all outputs.
select_image(output) ==
  LET own     == SelectInSeq(images, LAMBDA i : i.output = output)
      default == SelectLastInSeq(images, LAMBDA i : i.output = AnyOutput)
  IN  CASE own # 0                  -> images[own].path
        [] own = 0 /\ default # 0   -> images[default].path
        [] own = 0 /\ default = 0   -> NoImage

-----------------------------------------------------------------------------
\* What the user wrote.  Of the file that is everything up to and with its
\* first rejected line.
Obeyed ==
  LET bad == SelectInSeq(Lines, Rejected)
  IN  SubSeq(Lines, 1, IF bad = 0 THEN Len(Lines) ELSE bad)

IsAbout(o, kind, name) ==
  /\ o.kind = kind
  /\ kind = "set" => o.field = name
  /\ kind = "image" => o.output = name

LastAbout(s, kind, name) ==
  SelectLastInSeq(s, LAMBDA o : IsAbout(o, kind, name))

\* The option that takes effect: the last one of the command line, else the
\* last one of the file.
LastWord(lines, options, kind, name, default) ==
  LET c == LastAbout(options, kind, name)
      f == LastAbout(lines, kind, name)
  IN  CASE c # 0           -> options[c]
        [] c = 0 /\ f # 0  -> lines[f]
        [] c = 0 /\ f = 0  -> default

Word(kind, name, default) == LastWord(Obeyed, cli, kind, name, default)

Wanted(field) == Word("set", field, [value |-> "default"]).value

WantedLine ==
  LET m == Word("line", "any", [mode |-> "LINE"]).mode
  IN  Wanted(CASE m = "INSIDE" -> "inside" [] m = "RING" -> "ring"
               [] OTHER -> "line")

WantedMode ==
  LET m == Word("scaling", "any", [mode |-> "FILL"]).mode
  IN  IF m \in Modes THEN m ELSE "INVALID"

WantedImage(output) ==
  LET last == Word("image", output, [path |-> NoImage]).path
  IN  IF last \in Broken THEN NoImage ELSE last

(***************************************************************************)
(* The settings swaylock runs with are those the user wrote: the command   *)
(* line over the file, the later over the earlier, the first file of the   *)
(* documented list, the line's colour copied after everything else, and on *)
(* each output its own image or the one for all of them.                   *)
(***************************************************************************)
SettingsAsWritten ==
  phase = "done" =>
    /\ path = IF \E i \in DOMAIN cli : cli[i].kind = "config" THEN "given"
              ELSE IF files["home"] # NoFile THEN "home"
              ELSE IF files["xdg"] # NoFile THEN "xdg"
              ELSE IF files["sysconf"] # NoFile THEN "sysconf" ELSE NoFile
    /\ \A f \in Fields \ {"line"} : args[f] = Wanted(f)
    /\ args["line"] = WantedLine
    /\ mode = WantedMode
    /\ \A o \in Outputs :
         select_image(o) = IF WantedImage(o) # NoImage THEN WantedImage(o)
                           ELSE WantedImage(AnyOutput)

(***************************************************************************)
(* render_background_image() is called, as render() does for an output     *)
(* that has an image, only with a mode it can draw.  This does not hold: a *)
(* mode that the file's line is rejected for has been stored.              *)
(***************************************************************************)
ModeDrawable ==
  phase = "done" =>
    \A o \in Outputs :
      select_image(o) # NoImage /\ mode # "SOLID_COLOR" => mode # "INVALID"

=============================================================================
