------------------------------- MODULE FuseOpt -------------------------------
(***************************************************************************)
(* The command line of a FUSE file system: fuse_opt.c, and the tables and  *)
(* callbacks of the four passes fuse_setup_common makes over the arguments *)
(* (helper.c, mount.c, fuse.c, fuse_lowlevel.c).  Each pass takes the      *)
(* options it knows and hands the rest to the next one as a new argument   *)
(* vector, in which all "-o" options have been joined into one text.  The  *)
(* last part is the text handed to fusermount and how it reads it back.    *)
(*                                                                         *)
(* A string is a sequence of symbols.  A symbol is an option's name        *)
(* (ending in "=" when it takes a value), a dash option, or one character  *)
(* of a value; "," and "\\" are the two characters the escaping is about.  *)
(***************************************************************************)
EXTENDS Naturals, Sequences, FiniteSets, SequencesExt

CONSTANTS CmdLines,     \* the argument vectors after argv[0]
          BadPaths,     \* the words realpath refuses
          Root,         \* whether fusermount's real user is root
          AllowOther,   \* user_allow_other of /etc/fuse.conf
          None

VARIABLES given,        \* the argument vector as typed
          p             \* the pass under way: struct fuse_opt_context

vars == <<given, p>>

Stages == <<"helper", "mount", "lib", "ll", "done">>

(***************************************************************************)
(* The option tables: what each table does with a name.  "set" stores a    *)
(* value in the pass's own structure, "num" does so after sscanf, "keep"   *)
(* and "discard" are the special keys, the rest are keys of the callback.  *)
(***************************************************************************)
KernFlags == {"ro", "rw", "suid", "nosuid", "dev", "nodev", "exec", "noexec",
              "async", "sync", "atime", "noatime", "dirsync"}

HelperTable ==
    { [names |-> {"-d", "debug"},             does |-> {"set", "keep"}],
      [names |-> {"-f", "-s"},                does |-> {"set"}],
      [names |-> {"fsname=", "subtype="},     does |-> {"nosubtype", "keep"}],
      [names |-> {"-h", "--help", "-ho"},     does |-> {"help"}],
      [names |-> {"-V", "--version"},         does |-> {"version"}] }

MountTable ==
    { [names |-> {"allow_other"},             does |-> {"set", "kern"}],
      [names |-> {"allow_root"},              does |-> {"set", "allow_root"}],
      [names |-> {"nonempty", "auto_unmount", "blkdev", "fsname="},
                                              does |-> {"set", "fuser"}],
      [names |-> {"subtype="},                does |-> {"set", "subtype"}],
      [names |-> {"large_read", "blksize=", "default_permissions"},
                                              does |-> {"kern"}],
      [names |-> {"max_read="},               does |-> {"kern", "keep"}],
      [names |-> {"user="},                   does |-> {"mtab"}],
      [names |-> {"-r"},                      does |-> {"ro"}],
      [names |-> KernFlags,                   does |-> {"flag"}],
      [names |-> {"-h", "--help", "-V", "--version"}, does |-> {"help"}] }

LibTable ==
    { [names |-> {"-h", "--help"},            does |-> {"help"}],
      [names |-> {"-d", "debug"},             does |-> {"set", "keep"}],
      [names |-> {"hard_remove", "use_ino", "readdir_ino", "direct_io",
                  "kernel_cache", "auto_cache", "noauto_cache", "noforget",
                  "nopath", "intr", "modules="}, does |-> {"set"}],
      [names |-> {"umask=", "uid=", "gid=", "entry_timeout=", "attr_timeout=",
                  "ac_attr_timeout=", "negative_timeout=", "remember=",
                  "intr_signal="},            does |-> {"num"}] }

LowTable ==
    { [names |-> {"-d", "debug", "allow_root", "async_read", "sync_read",
                  "atomic_o_trunc", "no_remote_lock", "no_remote_flock",
                  "no_remote_posix_lock", "big_writes", "splice_write",
                  "no_splice_write", "splice_move", "no_splice_move",
                  "splice_read", "no_splice_read"}, does |-> {"set"}],
      [names |-> {"max_write=", "max_readahead=", "max_background=",
                  "congestion_threshold="},   does |-> {"num"}],
      [names |-> {"max_read="},               does |-> {"discard"}],
      [names |-> {"-h", "--help", "-V", "--version"}, does |-> {"help"}] }

Table(stage) == CASE stage = "helper" -> HelperTable
                  [] stage = "mount"  -> MountTable
                  [] stage = "lib"    -> LibTable
                  [] stage = "ll"     -> LowTable

\* match_template and find_opt: a template that ends in "=" matches every
\* argument that starts with it, any other one only the argument itself.
Valued == {"fsname=", "subtype=", "blksize=", "max_read=", "user=",
           "modules=", "umask=", "uid=", "gid=", "entry_timeout=",
           "attr_timeout=", "ac_attr_timeout=", "negative_timeout=",
           "remember=", "intr_signal=", "max_write=", "max_readahead=",
           "max_background=", "congestion_threshold="}
Matches(r, arg) ==
    /\ arg # <<>>
    /\ arg[1] \in r.names
    /\ arg[1] \notin Valued => Len(arg) = 1
Does(stage, arg) == UNION {r.does : r \in {q \in Table(stage) : Matches(q, arg)}}

Dashed == {"-o", "--", "-d", "-f", "-s", "-h", "--help", "-ho", "-V",
           "--version", "-r", "-x"}

(***************************************************************************)
(* Option texts                                                            *)
(***************************************************************************)

\* add_opt_common: append an option to a list, its commas and backslashes
\* escaped when esc.
AddOptPlain(text, opt, esc) ==
    (IF text \in {None, <<>>} THEN <<>> ELSE Append(text, ",")) \o opt
AddOpt(text, opt, esc) ==
    (IF text \in {None, <<>>} THEN <<>> ELSE Append(text, ",")) \o
    (IF esc THEN FlattenSeq([i \in 1..Len(opt) |->
                     IF opt[i] \in {",", "\\"} THEN <<"\\", opt[i]>>
                                               ELSE <<opt[i]>>])
            ELSE opt)

\* process_real_option_group: the options of a text, d the one being read.
\* Three octal digits after a backslash are one character.
RECURSIVE Options(_, _)
Options(s, d) ==
    CASE s = <<>>       -> <<d>>
      [] s # <<>> /\ s[1] = "," -> <<d>> \o Options(Tail(s), <<>>)
      [] Len(s) > 1 /\ s[1] = "\\" ->
           IF Len(s) > 3 /\ \A k \in 2..4 : s[k] = "1"
           THEN Options(SubSeq(s, 5, Len(s)), Append(d, "I"))
           ELSE Options(SubSeq(s, 3, Len(s)), Append(d, s[2]))
      [] OTHER          -> Options(Tail(s), Append(d, s[1]))

\* set_mount_flag: the flags that are on, by the name that turns them on.
Off == [ro |-> "rw", nosuid |-> "suid", nodev |-> "dev", noexec |-> "exec",
        sync |-> "async", noatime |-> "atime", dirsync |-> "none"]
OnFlags == <<"ro", "nosuid", "nodev", "noexec", "sync", "noatime", "dirsync">>
SetFlag(flags, name) ==
    IF name \in DOMAIN Off THEN flags \cup {name}
    ELSE {f \in flags : Off[f] # name}

\* struct mount_opts of fuse_kern_mount.
NoOpts == [flags |-> {"nosuid", "nodev"}, kern |-> None, fuser |-> None,
           sub |-> None, mtab |-> None, fsname |-> None, subtype |-> None]

(***************************************************************************)
(* One pass                                                                *)
(***************************************************************************)
Context(stage, args, mnt) ==
    [stage |-> stage, args |-> args, ctr |-> 1, out |-> <<>>, opts |-> None,
     nonopt |-> 0, set |-> {}, mnt |-> mnt, mo |-> NoOpts, err |-> FALSE]

Fail(c) == [c EXCEPT !.err = TRUE]

\* The callback of each pass: its context and result; -1 is an error, 0
\* consumes the argument, 1 keeps it for the next pass.
HelperProc(c, arg, key) ==
    CASE key = "help"    -> [c |-> [c EXCEPT !.out = Append(@, <<"-h">>)], res |-> 0]
      [] key = "nonopt" /\ c.mnt = None /\ arg \notin BadPaths
                         -> [c |-> [c EXCEPT !.mnt = arg], res |-> 0]
      [] key = "nonopt" /\ (c.mnt # None \/ arg \in BadPaths)
                         -> [c |-> Fail(c), res |-> 0]
      [] OTHER           -> [c |-> c, res |-> 1]

MountProc(c, arg, key) ==
    CASE key = "allow_root" ->
            [c |-> [c EXCEPT !.out = Append(@, <<"-o", "allow_root">>),
                             !.mo.kern = AddOpt(@, <<"allow_other">>, FALSE)], res |-> 0]
      [] key = "ro"      -> [c |-> [c EXCEPT !.mo.flags = SetFlag(@, "ro")], res |-> 0]
      [] key = "flag"    -> [c |-> [c EXCEPT !.mo.flags = SetFlag(@, arg[1])], res |-> 0]
      [] key = "kern"    -> [c |-> [c EXCEPT !.mo.kern = AddOpt(@, arg, FALSE)], res |-> 0]
      [] key = "fuser"   -> [c |-> [c EXCEPT !.mo.fuser = AddOpt(@, arg, TRUE)], res |-> 0]
      [] key = "subtype" -> [c |-> [c EXCEPT !.mo.sub = AddOpt(@, arg, FALSE)], res |-> 0]
      [] key = "mtab"    -> [c |-> [c EXCEPT !.mo.mtab = AddOpt(@, arg, FALSE)], res |-> 0]
      [] OTHER           -> [c |-> c, res |-> 1]

Proc(c, arg, key) ==
    CASE c.stage = "helper" -> HelperProc(c, arg, key)
      [] c.stage = "mount"  -> MountProc(c, arg, key)
      [] c.stage = "lib"    -> [c |-> c, res |-> 1]
      [] c.stage = "ll"     -> [c |-> Fail(c), res |-> 0]

\* call_proc: what one key does with an argument; iso says it came from "-o".
Keep(c, arg, iso) ==
    IF iso THEN [c EXCEPT !.opts = AddOpt(@, arg, TRUE)]
           ELSE [c EXCEPT !.out = Append(@, arg)]
CallProc(c, arg, key, iso) ==
    IF key = "discard" THEN c
    ELSE IF key = "keep" THEN Keep(c, arg, iso)
    ELSE LET q == Proc(c, arg, key) IN
         IF q.res = 1 THEN Keep(q.c, arg, iso) ELSE q.c

\* process_opt: a template with a variable stores the value, one with a key
\* calls the callback.  Everything a pass takes is recorded, in order.
ProcessOpt(c, arg, key, iso) ==
    CASE c.err -> c
      [] ~c.err /\ key \in {"set", "nosubtype"} ->
            IF c.stage # "mount" THEN c
            ELSE IF arg[1] = "fsname=" THEN [c EXCEPT !.mo.fsname = Tail(arg)]
            ELSE IF arg[1] = "subtype=" THEN [c EXCEPT !.mo.subtype = Tail(arg)]
            ELSE c
      [] ~c.err /\ key = "num" -> IF "bad" \in Range(arg) THEN Fail(c) ELSE c
      [] OTHER -> CallProc(c, arg, key, iso)

\* process_gopt: every matching template is processed; an argument none
\* matches goes to the callback.
Gopt(c, arg, iso) ==
    LET keys == Does(c.stage, arg)
        c1 == [c EXCEPT !.set = @ \cup {<<k, arg>> : k \in keys}]
    IN  IF c.err THEN c
        ELSE IF keys = {} THEN CallProc(c, arg, "other", iso)
        ELSE FoldLeft(LAMBDA d, k : ProcessOpt(d, arg, k, iso), c1, SetToSeq(keys))

Group(c, text) ==
    FoldLeft(LAMBDA d, arg : Gopt(d, arg, TRUE), c, Options(text, <<>>))

\* process_one
ProcessOne(c) ==
    LET arg == c.args[c.ctr]
        next == [c EXCEPT !.ctr = @ + 1]
    IN  CASE c.nonopt # 0 \/ arg = <<>> \/ arg[1] \notin Dashed ->
                CallProc(next, arg, "nonopt", FALSE)
          [] c.nonopt = 0 /\ arg = <<"-o">> /\ c.ctr = Len(c.args) -> Fail(next)
          [] c.nonopt = 0 /\ arg = <<"-o">> /\ c.ctr < Len(c.args) ->
                Group([c EXCEPT !.ctr = @ + 2], c.args[c.ctr + 1])
          [] c.nonopt = 0 /\ Len(arg) > 1 /\ arg[1] = "-o" -> Group(next, Tail(arg))
          [] c.nonopt = 0 /\ arg = <<"--">> ->
                \* argv[0] is in outargs too
                [next EXCEPT !.out = Append(@, arg), !.nonopt = Len(c.out) + 2]
          [] OTHER -> Gopt(next, arg, FALSE)

\* The end of opt_parse: insert the joined options after argv[0], and drop
\* a separator that is the last argument.
Outargs(c) ==
    LET ins == IF c.opts = None THEN c.out ELSE <<<<"-o">>, c.opts>> \o c.out
    IN  IF c.nonopt # 0 /\ c.nonopt = Len(ins) + 1 /\ Last(ins) = <<"--">>
        THEN Front(ins) ELSE ins

(***************************************************************************)
(* The four passes of fuse_setup_common                                    *)
(***************************************************************************)
Init == /\ given \in CmdLines
        /\ p = [now |-> Context("helper", given, None), took |-> [s \in {} |-> {}],
                outs |-> <<>>, mo |-> NoOpts]

Parsing == p.now.stage # "done" /\ ~p.now.err

Parse == /\ Parsing
         /\ p.now.ctr <= Len(p.now.args)
         /\ p' = [p EXCEPT !.now = ProcessOne(p.now)]
         /\ UNCHANGED given

\* add_default_subtype, when neither fsname nor subtype was given.
Subtyped(c, out) ==
    IF c.stage = "helper" /\ ~\E o \in c.set : o[1] = "nosubtype"
    THEN Append(out, <<"-o", "subtype=", "prog">>) ELSE out

\* fuse_kern_mount refuses both access options together.
Exclusive(c) == c.stage = "mount" /\ {<<"set", <<"allow_other">>>>,
                                      <<"set", <<"allow_root">>>>} \subseteq c.set

NextPass ==
    /\ Parsing
    /\ p.now.ctr > Len(p.now.args)
    /\ LET c == p.now
           i == CHOOSE k \in 1..4 : Stages[k] = c.stage
           out == Subtyped(c, Outargs(c))
       IN  p' = [now  |-> IF Exclusive(c) THEN Fail(c)
                          ELSE Context(Stages[i + 1], out, c.mnt),
                 took |-> [s \in DOMAIN p.took \cup {c.stage} |->
                             IF s = c.stage THEN c.set ELSE p.took[s]],
                 outs |-> Append(p.outs, out),
                 mo   |-> IF c.stage = "mount" THEN c.mo ELSE p.mo]
    /\ UNCHANGED given

Next == Parse \/ NextPass

Spec == Init /\ [][Next]_vars

(***************************************************************************)
(* The text handed to fusermount and how it reads it                       *)
(***************************************************************************)
AddIf(text, opt) == IF opt = None THEN text ELSE AddOpt(text, opt, FALSE)

\* get_mnt_flag_opts and fuse_kern_mount
MntOpts(mo) ==
    LET on == SelectSeq(OnFlags, LAMBDA f : f \in mo.flags)
        names == (IF "ro" \in mo.flags THEN <<>> ELSE <<"rw">>) \o on
        flags == FoldLeft(LAMBDA t, f : AddOpt(t, <<f>>, FALSE), None, names)
    IN  AddIf(AddIf(AddIf(AddIf(flags, mo.kern), mo.mtab), mo.fuser), mo.sub)

\* The loop of do_mount splits at the commas that are not escaped and
\* leaves the backslashes; get_string_opt removes them from a name.
RECURSIVE Split(_, _)
Split(s, d) ==
    CASE s = <<>> -> IF d = <<>> THEN <<>> ELSE <<d>>
      [] s # <<>> /\ s[1] = "," -> <<d>> \o Split(Tail(s), <<>>)
      [] Len(s) > 1 /\ s[1] = "\\" -> Split(SubSeq(s, 3, Len(s)), d \o <<s[1], s[2]>>)
      [] OTHER -> Split(Tail(s), Append(d, s[1]))
RECURSIVE StringOpt(_)
StringOpt(s) ==
    IF s = <<>> THEN <<>>
    ELSE IF s[1] = "\\" /\ Len(s) > 1 THEN <<s[2]>> \o StringOpt(SubSeq(s, 3, Len(s)))
    ELSE <<s[1]>> \o StringOpt(Tail(s))

\* find_mount_flag: a user other than root cannot clear nosuid and nodev.
Unsafe == {"suid", "dev"}
\* One option in the loop of do_mount; "large_read" is skipped on kernels
\* after 2.4.
DoOption(m, o) ==
    CASE o # <<>> /\ o[1] = "fsname="  -> [m EXCEPT !.fsname = StringOpt(Tail(o))]
      [] o # <<>> /\ o[1] = "subtype=" -> [m EXCEPT !.subtype = StringOpt(Tail(o))]
      [] o = <<"blkdev">>       -> IF Root THEN m ELSE [m EXCEPT !.err = TRUE]
      [] o \in {<<"nonempty">>, <<"auto_unmount">>, <<"large_read">>} -> m
      [] o \in {<<"allow_other">>, <<"allow_root">>} /\ ~Root /\ ~AllowOther ->
                                   [m EXCEPT !.err = TRUE]
      [] Len(o) = 1 /\ o[1] \in KernFlags ->
            IF o[1] \in Unsafe /\ ~Root THEN m
            ELSE [m EXCEPT !.flags = SetFlag(@, o[1])]
      [] OTHER                  -> [m EXCEPT !.kern = Append(@, o)]
DoMount(text) ==
    FoldLeft(DoOption, [flags |-> {"nosuid", "nodev"}, kern |-> <<>>, err |-> FALSE,
                        fsname |-> None, subtype |-> None], Split(text, <<>>))

(***************************************************************************)
(* Properties                                                              *)
(***************************************************************************)

\* What was typed: the options and the words, in the order of the line.
RECURSIVE Typed(_)
Typed(args) ==
    CASE args = <<>>  -> [opts |-> <<>>, words |-> <<>>, cut |-> FALSE, sep |-> FALSE, os |-> {}]
      [] args # <<>> /\ args[1] = <<"--">> ->
            [opts |-> <<>>, words |-> Tail(args), cut |-> FALSE, sep |-> TRUE, os |-> {}]
      [] args = <<<<"-o">>>> ->
            [opts |-> <<>>, words |-> <<>>, cut |-> TRUE, sep |-> FALSE, os |-> {}]
      [] OTHER ->
            LET a == args[1]
                two == a = <<"-o">>
                t == Typed(IF two THEN Tail(Tail(args)) ELSE Tail(args))
            IN  CASE a[1] \notin Dashed -> [t EXCEPT !.words = <<a>> \o @]
                  [] a[1] = "-o" ->
                       LET os == Options(IF two THEN args[2] ELSE Tail(a), <<>>)
                       IN  [t EXCEPT !.opts = os \o @, !.os = Range(os) \cup @]
                  [] OTHER -> [t EXCEPT !.opts = <<a>> \o @]

\* The separator stays, and the default subtype is appended behind it,
\* where no pass takes it for an option: the nonopt mark is compared with
\* the length of the vector after "-o" and its text were inserted.
Stranded(t) ==
    /\ t.sep
    /\ \E o \in t.os : Does("helper", o) = {} \/ Does("helper", o) \cap {"keep", "version"} # {}
    /\ \A o \in Range(t.opts) : "nosubtype" \notin Does("helper", o)

Refusable(t) ==
    \/ Stranded(t)
    \/ t.cut \/ Len(t.words) > 1
    \/ \E w \in Range(t.words) : w \in BadPaths
    \/ \E o \in Range(t.opts) :
          \/ \A k \in 1..4 : Does(Stages[k], o) = {}
          \/ \E k \in 1..4 : Does(Stages[k], o) \cap {"help", "version"} # {}
          \/ "bad" \in Range(o) /\ \E k \in 1..4 : "num" \in Does(Stages[k], o)
    \/ {<<"allow_other">>, <<"allow_root">>} \subseteq Range(t.opts)

\* The four passes together lose nothing and add nothing: a command line is
\* refused exactly when it has a reason to be (an option no table has, help
\* or version, a bad number, a second word), and otherwise every option
\* typed was taken by each of the tables that has it, through however many
\* rewritings of the argument vector, and the mount point is the one word.
LineUnderstood ==
    LET t == Typed(given) IN
    /\ p.now.err => Refusable(t)
    /\ p.now.stage = "done" =>
         /\ ~Refusable(t)
         /\ \A k \in 1..4 : \A o \in Range(t.opts) :
              \A key \in Does(Stages[k], o) : <<key, o>> \in p.took[Stages[k]]
         /\ p.now.mnt = (IF t.words = <<>> THEN None ELSE t.words[1])
         /\ p.now.args = <<>>

\* What mount.c asks of fusermount in a text is what fusermount does: the
\* kernel's options, the flags except the two that fusermount always starts
\* with, and the two names, whatever characters the file system's name has.
Plain(s) == s = None \/ (s # None /\ Range(s) \cap {",", "\\"} = {})
KernList(mo) == IF AddIf(mo.kern, mo.mtab) = None THEN <<>>
                ELSE Split(AddIf(mo.kern, mo.mtab), <<>>)
FusermountAgrees ==
    p.mo # NoOpts =>
      LET f == DoMount(MntOpts(p.mo)) IN
      Plain(p.mo.subtype) /\ ~f.err =>
        /\ f.flags \ {"nosuid", "nodev"} = p.mo.flags \ {"nosuid", "nodev"}
        /\ f.fsname = p.mo.fsname
        /\ f.subtype = p.mo.subtype
        /\ f.kern = SelectSeq(KernList(p.mo), LAMBDA o : o # <<"large_read">>)

\* "If option separator ("--") is the last argument, remove it" (the end of
\* opt_parse): no pass hands on a vector that ends in the separator.
SeparatorRemoved ==
    \A k \in 1..Len(p.outs) :
       LET o == IF k = 1 /\ p.outs[k] # <<>> /\ Last(p.outs[k]) = <<"-o", "subtype=", "prog">>
                THEN Front(p.outs[k]) ELSE p.outs[k]
       IN  o # <<>> => Last(o) # <<"--">>
=============================================================================
