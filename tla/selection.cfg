CONSTANT Rows <- ThreeArchives
SPECIFICATION Spec
INVARIANTS ListAgrees FolderIsSubtree ExtractsChecked
PROPERTY ClickIsLocal
