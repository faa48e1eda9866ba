SPECIFICATION Spec

CONSTANT Installed <- PythonPackages

INVARIANT LibrariesListed
