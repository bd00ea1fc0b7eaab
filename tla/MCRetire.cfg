SPECIFICATION StorageSpec
CONSTANT MaxGeneration = 3
INVARIANT SavedMaterialStarts
