----------------------------- MODULE Detection ------------------------------
(***************************************************************************)
(* What a build finds in its source directory and makes of it: Detect      *)
(* (internal/build/adapter/detector/detector.go) and Generate              *)
(* (internal/build/adapter/dockerfile/generator.go).                       *)
(*                                                                         *)
(* A directory s maps the names in it to what the patterns of Detect find  *)
(* there: no version, a plain one, or an odd one (of several lines or      *)
(* words); or to "directory".  Frameworks, ports, commands and confidence  *)
(* go into the log and the wording of the Dockerfile and are left out.     *)
(* app.csproj and app.sln stand for all names with these suffixes.         *)
(***************************************************************************)

\* The files by which Detect knows what to build.
Manifests ==
  {"Dockerfile", "dockerfile", "go.mod", "package.json", "requirements.txt",
   "pyproject.toml", "pom.xml", "build.gradle", "Gemfile", "Cargo.toml", "app.csproj",
   "app.sln"}

Contents == {"none", "plain", "odd", "directory"}

fileExists(s, f) == f \in DOMAIN s /\ s[f] # "directory"

\* The version found in a file; the error of os.ReadFile is dropped.
ReadFile(s, f) == IF fileExists(s, f) THEN s[f] ELSE "none"

\* domain.DetectionResult
Result(language, version) ==
  [hasDockerfile |-> FALSE, language |-> language, version |-> version]

\* The pattern takes digits and a dot only.
Go(s) == Result("go", IF ReadFile(s, "go.mod") = "plain" THEN "plain" ELSE "none")

Node(s) == Result("node", IF fileExists(s, ".nvmrc") THEN ReadFile(s, ".nvmrc")
                                                     ELSE ReadFile(s, "package.json"))

Python(s) == Result("python", ReadFile(s, ".python-version"))

\* The first match in both files one after the other.
Java(s) == Result("java", IF ReadFile(s, "pom.xml") # "none" THEN ReadFile(s, "pom.xml")
                                                             ELSE ReadFile(s, "build.gradle"))

Ruby(s) == Result("ruby", ReadFile(s, ".ruby-version"))

Rust(s) == Result("rust", ReadFile(s, "Cargo.toml"))

Dotnet(s) == Result("dotnet", ReadFile(s, "app.csproj"))

\* What Detect returns for a directory that is not empty.  The names with a
\* suffix are those of directories, too.
Detected(s) ==
  IF fileExists(s, "Dockerfile") \/ fileExists(s, "dockerfile")
    THEN [Result("", "none") EXCEPT !.hasDockerfile = TRUE]
  ELSE IF fileExists(s, "go.mod") THEN Go(s)
  ELSE IF fileExists(s, "package.json") THEN Node(s)
  ELSE IF fileExists(s, "requirements.txt") \/ fileExists(s, "pyproject.toml") THEN Python(s)
  ELSE IF fileExists(s, "pom.xml") \/ fileExists(s, "build.gradle") THEN Java(s)
  ELSE IF fileExists(s, "Gemfile") THEN Ruby(s)
  ELSE IF fileExists(s, "Cargo.toml") THEN Rust(s)
  ELSE IF "app.csproj" \in DOMAIN s \/ "app.sln" \in DOMAIN s THEN Dotnet(s)
  ELSE Result("unknown", "none")

\* Faulty variant: one language has no template.
TemplatesForgotten == {"node", "python", "java", "ruby", "rust", "dotnet"}

\* The languages for which Generate has a template.  What the templates copy and run
\* matters to Kaniko alone.
Templates == {"go", "node", "python", "java", "ruby", "rust", "dotnet"}

\* Whether Generate succeeds (ok): it has a template, and Validate accepts what
\* becomes of it.  An odd version makes an instruction invalid, or does not.
Generated(d, ok) ==
  IF ok THEN d.language \in Templates ELSE d.language \notin Templates \/ d.version = "odd"
=============================================================================
